---- MODULE Spec2Model ----
(***************************************************************************)
(* Model of the annotation store (db.py) and of the highlight renderer     *)
(* (app.py) of the Mini QDA application.                                   *)
(*                                                                         *)
(* The store is a MySQL/InnoDB database reached through SQLAlchemy.  Each  *)
(* db.py function is a sequence of SQL statements inside one transaction   *)
(* (engine.begin()); every statement is one atomic step of the model and   *)
(* the COMMIT that ends the with-block is a step of its own, so two        *)
(* callers interleave exactly at statement boundaries.  A statement that   *)
(* has to wait for a row lock held by another transaction is disabled      *)
(* until that transaction ends.                                            *)
(***************************************************************************)
EXTENDS Integers, Sequences, FiniteSets, TLC

VARIABLES
  documents,       \* committed rows of table documents
  codes,           \* committed rows of table codes
  coded_segments,  \* committed rows of table coded_segments
  nextId,          \* AUTO_INCREMENT counter of each table
  isolation,       \* transaction isolation level of the server
  pc,              \* pc[p]: the statement caller p executes next
  args,            \* args[p]: the call p is executing, with its arguments
  result,          \* result[p]: result.lastrowid / result.rowcount / fetched id
  ret,             \* ret[p]: what the finished call returned or raised
  snap,            \* snap[p]: read view of p's transaction (REPEATABLE READ)
  pend,            \* pend[p]: uncommitted row writes of p's transaction
  overlap,         \* overlap[p]: p's call ran while another call was running
  text,            \* highlight_text: argument text
  segments,        \* highlight_text: argument segments
  markup,          \* highlight_text: returned parts, before "".join
  hlpc,            \* highlight_text: "input" before, "done" after the call
  out,             \* out[p]: the value a finished read-only call returned
  clock,           \* CURRENT_TIMESTAMP of the server, in seconds
  session          \* session[p]: the reactive values of p's browser session

dbvars == <<documents, codes, coded_segments, nextId, isolation,
            pc, args, result, ret, snap, pend, overlap>>
hlvars == <<text, segments, markup, hlpc>>
appvars == <<hlvars, out, clock, session>>
vars == <<dbvars, appvars>>

\* The concurrent callers (request-handling units sharing the one engine).
Procs == {"p1", "p2"}

\* The isolation levels a MySQL server can run the transactions under;
\* get_engine sets none, so the server's setting applies (default
\* REPEATABLE-READ).
IsolationLevels == {"REPEATABLE-READ", "READ-COMMITTED"}

\* Python None / SQL NULL for a text column.
None == "<None>"

----------------------------------------------------------------------------
(* Text helpers.  A text is a sequence of characters.                      *)

\* Characters str.strip() removes.
Whitespace == {" ", "\n", "\t"}

RECURSIVE LStrip(_)
LStrip(s) ==
  IF s # <<>> /\ Head(s) \in Whitespace THEN LStrip(Tail(s)) ELSE s

RECURSIVE RStrip(_)
RStrip(s) ==
  IF s # <<>> /\ s[Len(s)] \in Whitespace
  THEN RStrip(SubSeq(s, 1, Len(s) - 1)) ELSE s

\* Strip as it would be were the text tested without .strip().
StripNothing(s) == s

\* str.strip()
Strip(s) == RStrip(LStrip(s))

\* Number of bytes of one character in UTF-8 (the characters the model uses).
Utf8Bytes(c) == IF c \in {"é", "ß"} THEN 2 ELSE 1

RECURSIVE Utf8Len(_)
\* len(content.encode('utf-8'))
Utf8Len(s) == IF s = <<>> THEN 0 ELSE Utf8Bytes(Head(s)) + Utf8Len(Tail(s))

\* hashlib.sha256(content.encode('utf-8')).hexdigest(): a deterministic,
\* collision-free function of the content, kept symbolic.
CalculateContentHash(content) == <<"sha256", content>>

----------------------------------------------------------------------------
(* Transactions.                                                           *)

NoSnap == [taken |-> FALSE, documents |-> {}, codes |-> {}, coded_segments |-> {}]

\* The committed state of the three tables.
Committed ==
  [taken |-> TRUE, documents |-> documents, codes |-> codes,
   coded_segments |-> coded_segments]

\* The read view a consistent (non-locking) SELECT of p's transaction uses:
\* under REPEATABLE READ the snapshot of the transaction's first SELECT,
\* under READ COMMITTED the state committed when the statement runs.
ReadView(p) ==
  IF isolation = "REPEATABLE-READ" /\ snap[p].taken THEN snap[p] ELSE Committed

\* snap[p] after a SELECT of p.
SnapAfterRead(p) ==
  IF isolation = "REPEATABLE-READ" THEN ReadView(p) ELSE NoSnap

\* Rows p's own transaction has written to tbl and not yet committed.
Own(p, tbl) == {w.row : w \in {x \in pend[p] : x.tbl = tbl}}

\* Rows of tbl p's own transaction has deleted and not yet committed; only
\* coded_segments rows are ever deleted, and pend[p] keeps them under the
\* name "deleted_segments".
Deleted(p, tbl) ==
  IF tbl = "coded_segments" THEN Own(p, "deleted_segments") ELSE {}

\* The rows of tbl a SELECT of p sees: its read view, with its own writes.
Select(p, tbl) ==
  {r \in ReadView(p)[tbl] :
     /\ \A o \in Own(p, tbl) : o.id # r.id
     /\ \A o \in Deleted(p, tbl) : o.id # r.id}
    \cup Own(p, tbl)

\* Rows of tbl that transactions other than p have written or deleted and
\* not committed (they hold the exclusive locks of those rows and index
\* entries).
LockedByOthers(p, tbl) ==
  UNION {Own(q, tbl) \cup Deleted(q, tbl) : q \in Procs \ {p}}

\* The coded_segments rows on which transactions other than p hold the
\* shared lock that an INSERT refused for a duplicate key leaves on the
\* existing row; pend keeps them under the name "locked_segments".
SharedLockedByOthers(p) ==
  UNION {Own(q, "locked_segments") : q \in Procs \ {p}}

\* tbl after p's COMMIT.
AfterCommit(p, tbl, rows) ==
  {r \in rows :
     /\ \A o \in Own(p, tbl) : o.id # r.id
     /\ \A o \in Deleted(p, tbl) : o.id # r.id}
    \cup Own(p, tbl)

\* COMMIT at the end of "with engine.begin() as conn".
CommitTxn(p) ==
  /\ documents' = AfterCommit(p, "documents", documents)
  /\ codes' = AfterCommit(p, "codes", codes)
  /\ coded_segments' = AfterCommit(p, "coded_segments", coded_segments)
  /\ pend' = [pend EXCEPT ![p] = {}]
  /\ snap' = [snap EXCEPT ![p] = NoSnap]

\* ROLLBACK when an exception leaves the with-block: the transaction's
\* writes are dropped.
RollbackTxn(p) ==
  /\ pend' = [pend EXCEPT ![p] = {}]
  /\ snap' = [snap EXCEPT ![p] = NoSnap]
  /\ UNCHANGED <<documents, codes, coded_segments>>

NoResult == [lastrowid |-> 0, rowcount |-> 0, id |-> 0]
NoRet == [kind |-> "none", id |-> 0, msg |-> ""]
Returned(id) == [kind |-> "ok", id |-> id, msg |-> ""]
Raised(kind, msg) == [kind |-> kind, id |-> 0, msg |-> msg]
Idle == [fn |-> "none"]

Running(p) == pc[p] \notin {"idle", "done"}

\* A call of p begins: it overlaps every call that is running.
Begin(p, call, at) ==
  /\ pc[p] = "idle"
  /\ pc' = [pc EXCEPT ![p] = at]
  /\ args' = [args EXCEPT ![p] = call]
  /\ overlap' = [q \in Procs |->
                   IF \E r \in Procs \ {p} : Running(r)
                   THEN (q = p \/ Running(q) \/ overlap[q])
                   ELSE overlap[q]]

\* The seed rows init_db inserts into an empty codes table.
SeedCodes ==
  { [id |-> 1, name |-> "Important", description |-> "Key findings or important information", color |-> None],
    [id |-> 2, name |-> "Question", description |-> "Areas that need further investigation", color |-> None],
    [id |-> 3, name |-> "Theme", description |-> "Recurring themes or patterns", color |-> None] }

\* The store after get_engine() and init_db(engine) on an empty database.
InitDB ==
  /\ documents = {}
  /\ codes = SeedCodes
  /\ coded_segments = {}
  /\ nextId = [documents |-> 1, codes |-> 4, coded_segments |-> 1]
  /\ isolation \in IsolationLevels
  /\ pc = [p \in Procs |-> "idle"]
  /\ args = [p \in Procs |-> Idle]
  /\ result = [p \in Procs |-> NoResult]
  /\ ret = [p \in Procs |-> NoRet]
  /\ snap = [p \in Procs |-> NoSnap]
  /\ pend = [p \in Procs |-> {}]
  /\ overlap = [p \in Procs |-> FALSE]

\* Nothing returned (yet) by a read-only call.
NoOut == [kind |-> "none"]

\* No selection: input.text_selection() before the browser has set it.
NoSelection == [start |-> 0, end |-> 0, text |-> <<>>]

\* The reactive values of a session as server() creates them:
\* current_doc_id = None, current_text = "", current_metadata = {}; with
\* them the session's input value text_selection and, for the properties,
\* selected_on: the current_doc_id at the time the browser set it.
NewSession ==
  [current_doc_id |-> 0, current_text |-> <<>>,
   current_metadata |-> [kind |-> "empty"],
   text_selection |-> NoSelection, selected_on |-> 0]

\* The callers hold no result, the sessions are new and the clock starts.
InitApp ==
  /\ out = [p \in Procs |-> NoOut]
  /\ clock = 0
  /\ session = [p \in Procs |-> NewSession]

\* No call of highlight_text is being evaluated.
NoHL ==
  /\ text = <<>>
  /\ segments = <<>>
  /\ markup = <<>>
  /\ hlpc = "none"

\* The caller has its result and is ready for the next call.
Return(p) ==
  /\ pc[p] = "done"
  /\ pc' = [pc EXCEPT ![p] = "idle"]
  /\ args' = [args EXCEPT ![p] = Idle]
  /\ ret' = [ret EXCEPT ![p] = NoRet]
  /\ result' = [result EXCEPT ![p] = NoResult]
  /\ overlap' = [overlap EXCEPT ![p] = FALSE]
  /\ out' = [out EXCEPT ![p] = NoOut]
  /\ UNCHANGED <<documents, codes, coded_segments, nextId, isolation, snap, pend>>
  /\ UNCHANGED <<hlvars, clock, session>>

----------------------------------------------------------------------------
(* create_code                                                             *)

\* name VARCHAR(190): the longest name the column holds.
MaxNameLength == 190

\* A code name is kept as one string.  LongName stands for a name of 191
\* characters that does not end in a blank, LongNameCut for its first 190.
LongName == "<a name of 191 characters>"
LongNameCut == "<its first 190 characters>"

\* len(name), for the names of the model.
NameLength(name) ==
  CASE name = "" -> 0
    [] name = " " -> 1
    [] name \in {"Idea", "Memo"} -> 4
    [] name \in {"Theme", "theme"} -> 5
    [] name = "Question" -> 8
    [] name = "Important" -> 9
    [] name = LongNameCut -> MaxNameLength
    [] name = LongName -> MaxNameLength + 1

\* The value INSERT IGNORE stores in the VARCHAR(190) column: a longer value
\* is cut to the column's length with a warning, not refused.
Varchar(name) ==
  IF NameLength(name) > MaxNameLength THEN LongNameCut ELSE name

\* COLLATE utf8mb4_unicode_ci compares without regard to case and to trailing
\* blanks: the representative of a name of the model under it.
Folded(name) ==
  CASE name = " " -> ""
    [] name = "theme" -> "Theme"
    [] OTHER -> name

\* a = b under the collation of codes.name (uniq_code_name, WHERE name = ...).
SameName(a, b) == Folded(a) = Folded(b)

\* create_code(engine, name, description, color) is called.
CallCreateCode(p, name, description, color) ==
  /\ Begin(p, [fn |-> "create_code", name |-> name,
               description |-> description, color |-> color], "cc_insert")
  /\ UNCHANGED <<documents, codes, coded_segments, nextId, isolation,
                 result, ret, snap, pend>>
  /\ UNCHANGED appvars

\* CcInsert as it would be with a plain INSERT (no IGNORE): a duplicate name
\* raises IntegrityError out of the call.
CcInsertPlain(p) ==
  /\ pc[p] = "cc_insert"
  /\ \A r \in LockedByOthers(p, "codes") :
       ~SameName(r.name, Varchar(args[p].name))
  /\ IF \E r \in codes : SameName(r.name, Varchar(args[p].name))
     THEN /\ RollbackTxn(p)
          /\ ret' = [ret EXCEPT ![p] = Raised("IntegrityError", "uniq_code_name")]
          /\ pc' = [pc EXCEPT ![p] = "done"]
          /\ UNCHANGED <<nextId, result>>
     ELSE /\ pend' = [pend EXCEPT ![p] = @ \cup
                 {[tbl |-> "codes",
                   row |-> [id |-> nextId.codes,
                            name |-> Varchar(args[p].name),
                            description |-> args[p].description,
                            color |-> args[p].color]]}]
          /\ nextId' = [nextId EXCEPT !.codes = @ + 1]
          /\ result' = [result EXCEPT ![p] =
                 [NoResult EXCEPT !.rowcount = 1, !.lastrowid = nextId.codes]]
          /\ pc' = [pc EXCEPT ![p] = "cc_select"]
          /\ UNCHANGED <<documents, codes, coded_segments, ret, snap>>
  /\ UNCHANGED <<isolation, args, overlap>>
  /\ UNCHANGED appvars

\* CcInsert as it would be with INSERT ... ON DUPLICATE KEY UPDATE
\* description = VALUES(description), color = VALUES(color): an existing row
\* of that name takes the supplied description and color.
CcInsertUpdating(p) ==
  /\ pc[p] = "cc_insert"
  /\ \A r \in LockedByOthers(p, "codes") :
       ~SameName(r.name, Varchar(args[p].name))
  /\ IF \E r \in codes : SameName(r.name, Varchar(args[p].name))
     THEN /\ codes' = {IF SameName(r.name, Varchar(args[p].name))
                        THEN [r EXCEPT !.description = args[p].description,
                                       !.color = args[p].color]
                        ELSE r : r \in codes}
          /\ result' = [result EXCEPT ![p] = [NoResult EXCEPT !.rowcount = 2]]
          /\ UNCHANGED <<pend, nextId>>
     ELSE /\ pend' = [pend EXCEPT ![p] = @ \cup
                 {[tbl |-> "codes",
                   row |-> [id |-> nextId.codes,
                            name |-> Varchar(args[p].name),
                            description |-> args[p].description,
                            color |-> args[p].color]]}]
          /\ nextId' = [nextId EXCEPT !.codes = @ + 1]
          /\ result' = [result EXCEPT ![p] =
                 [NoResult EXCEPT !.rowcount = 1, !.lastrowid = nextId.codes]]
          /\ UNCHANGED codes
  /\ pc' = [pc EXCEPT ![p] = "cc_select"]
  /\ UNCHANGED <<documents, coded_segments, isolation, args, ret, snap, overlap>>
  /\ UNCHANGED appvars

\* INSERT IGNORE INTO codes (name, description, color) VALUES (...)
\* A row of that name another transaction has inserted and not committed
\* makes the statement wait; a committed one makes it a no-op (rowcount 0).
CcInsert(p) ==
  /\ pc[p] = "cc_insert"
  /\ \A r \in LockedByOthers(p, "codes") :
       ~SameName(r.name, Varchar(args[p].name))
  /\ IF \E r \in codes : SameName(r.name, Varchar(args[p].name))
     THEN /\ result' = [result EXCEPT ![p] = [NoResult EXCEPT !.rowcount = 0]]
          /\ UNCHANGED <<pend, nextId>>
     ELSE /\ pend' = [pend EXCEPT ![p] = @ \cup
                 {[tbl |-> "codes",
                   row |-> [id |-> nextId.codes,
                            name |-> Varchar(args[p].name),
                            description |-> args[p].description,
                            color |-> args[p].color]]}]
          /\ nextId' = [nextId EXCEPT !.codes = @ + 1]
          /\ result' = [result EXCEPT ![p] =
                 [NoResult EXCEPT !.rowcount = 1, !.lastrowid = nextId.codes]]
  /\ pc' = [pc EXCEPT ![p] = "cc_select"]
  /\ UNCHANGED <<documents, codes, coded_segments, isolation, args, ret, snap, overlap>>
  /\ UNCHANGED appvars

\* SELECT id FROM codes WHERE name = :name, then scalar_one(), which raises
\* unless exactly one row is found.
CcSelect(p) ==
  /\ pc[p] = "cc_select"
  /\ LET found == {r \in Select(p, "codes") : SameName(r.name, args[p].name)}
     IN IF Cardinality(found) = 1
        THEN /\ result' = [result EXCEPT ![p].id = (CHOOSE r \in found : TRUE).id]
             /\ snap' = [snap EXCEPT ![p] = SnapAfterRead(p)]
             /\ pc' = [pc EXCEPT ![p] = "cc_commit"]
             /\ UNCHANGED <<documents, codes, coded_segments, pend, ret>>
        ELSE /\ RollbackTxn(p)
             /\ ret' = [ret EXCEPT ![p] = Raised("NoResultFound", "scalar_one")]
             /\ pc' = [pc EXCEPT ![p] = "done"]
             /\ UNCHANGED result
  /\ UNCHANGED <<nextId, isolation, args, overlap>>
  /\ UNCHANGED appvars

\* return int(code_id): the with-block commits, the call returns.
CcCommit(p) ==
  /\ pc[p] = "cc_commit"
  /\ CommitTxn(p)
  /\ ret' = [ret EXCEPT ![p] = Returned(result[p].id)]
  /\ pc' = [pc EXCEPT ![p] = "done"]
  /\ UNCHANGED <<nextId, isolation, args, result, overlap>>
  /\ UNCHANGED appvars

\* The code names and descriptions callers create codes with.
CodeNames == {"Theme", "Memo", "Idea"}
Descriptions == {None, "note"}

NextCode ==
  \/ \E p \in Procs, name \in CodeNames, d \in Descriptions :
       CallCreateCode(p, name, d, None)
  \/ \E p \in Procs : CcInsert(p)
  \/ \E p \in Procs : CcSelect(p)
  \/ \E p \in Procs : CcCommit(p)
  \/ \E p \in Procs : Return(p)

InitCode == InitDB /\ NoHL /\ InitApp

\* The code registry under concurrent create_code calls.
SpecCode == InitCode /\ [][NextCode]_vars

\* Names create_code can be handed by a caller that does not check them:
\* the empty string, a blank, a name longer than the column, a plain name.
UncheckedNames == {"", " ", LongName, "Memo"}

\* A refused insert still takes an AUTO_INCREMENT value: calls begin while
\* the next codes id is at most MaxCodeId.
MaxCodeId == 6

NextName ==
  \/ \E p \in Procs, name \in UncheckedNames :
       /\ nextId.codes <= MaxCodeId
       /\ CallCreateCode(p, name, None, None)
  \/ \E p \in Procs : CcInsert(p)
  \/ \E p \in Procs : CcSelect(p)
  \/ \E p \in Procs : CcCommit(p)
  \/ \E p \in Procs : Return(p)

\* create_code called directly, with names of any form.
SpecName == InitCode /\ [][NextName]_vars

----------------------------------------------------------------------------
(* upsert_document                                                         *)

\* upsert_document(engine, filename, content) is called: the hash and the
\* size metrics are computed from content before the transaction begins.
CallUpsertDocument(p, filename, content) ==
  /\ Begin(p, [fn |-> "upsert_document", filename |-> filename,
               content |-> content,
               content_hash |-> CalculateContentHash(content),
               file_size |-> Utf8Len(content),
               char_count |-> Len(content)], "ud_insert")
  /\ UNCHANGED <<documents, codes, coded_segments, nextId, isolation,
                 result, ret, snap, pend>>
  /\ UNCHANGED appvars

\* The documents row the statement's VALUES(...) describe, under id.
DocumentRow(id, a) ==
  [id |-> id, filename |-> a.filename, content |-> a.content,
   content_hash |-> a.content_hash, file_size |-> a.file_size,
   char_count |-> a.char_count]

\* UpdatedRow as it would be with content_hash missing from the ON DUPLICATE
\* KEY UPDATE list: the old hash stays.
UpdatedRowStaleHash(row, a) ==
  [DocumentRow(row.id, a) EXCEPT !.content_hash = row.content_hash]

\* UpdatedRow as it would be with file_size and char_count missing from the
\* ON DUPLICATE KEY UPDATE list: the old sizes stay.
UpdatedRowStaleSizes(row, a) ==
  [DocumentRow(row.id, a) EXCEPT !.file_size = row.file_size,
                                 !.char_count = row.char_count]

\* ON DUPLICATE KEY UPDATE content = VALUES(content), content_hash = ...,
\* file_size = ..., char_count = ...: the existing row after the update; id
\* and filename stay.
UpdatedRow(row, a) == DocumentRow(row.id, a)

\* UdInsertWaits as it would be were the upsert an existence check followed
\* by a write, with nothing making the second writer wait for the first.
UdInsertNeverWaits(p) == FALSE

\* UNIQUE KEY uniq_filename: the statement waits while another transaction
\* holds an uncommitted row of the same filename.
UdInsertWaits(p) ==
  \E r \in LockedByOthers(p, "documents") : r.filename = args[p].filename

\* INSERT INTO documents (...) VALUES (...) ON DUPLICATE KEY UPDATE ...
\* One statement: it inserts the row, or, when uniq_filename already holds
\* the filename, updates that row in place.  It waits while another
\* transaction holds the row (an uncommitted upsert of the filename, or the
\* shared lock the foreign-key check of an uncommitted segment insert took).
\* result.lastrowid is the new id after an insert, the row's id after an
\* update that changed the row, and 0 after an update that changed nothing
\* (updated_at may or may not differ when the content is the same).
UdInsert(p) ==
  /\ pc[p] = "ud_insert"
  /\ ~UdInsertWaits(p)
  /\ LET old == {r \in documents : r.filename = args[p].filename}
     IN IF old = {}
        THEN /\ pend' = [pend EXCEPT ![p] = @ \cup
                   {[tbl |-> "documents",
                     row |-> DocumentRow(nextId.documents, args[p])]}]
             /\ nextId' = [nextId EXCEPT !.documents = @ + 1]
             /\ result' = [result EXCEPT ![p] =
                   [NoResult EXCEPT !.lastrowid = nextId.documents, !.rowcount = 1]]
             /\ pc' = [pc EXCEPT ![p] = "ud_commit"]
        ELSE LET row == CHOOSE r \in old : TRUE
                 new == UpdatedRow(row, args[p])
             IN /\ \A s \in LockedByOthers(p, "coded_segments") :
                     s.document_id # row.id
                /\ pend' = [pend EXCEPT ![p] = @ \cup
                      {[tbl |-> "documents", row |-> new]}]
                /\ \E lastrowid \in (IF new # row THEN {row.id} ELSE {0, row.id}) :
                     /\ result' = [result EXCEPT ![p] =
                           [NoResult EXCEPT !.lastrowid = lastrowid,
                                            !.rowcount = IF lastrowid = 0 THEN 0 ELSE 2]]
                     /\ pc' = [pc EXCEPT ![p] =
                           IF lastrowid # 0 THEN "ud_commit" ELSE "ud_select"]
                /\ UNCHANGED nextId
  /\ UNCHANGED <<documents, codes, coded_segments, isolation, args, ret, snap, overlap>>
  /\ UNCHANGED appvars

\* Where upsert_document returns to: into _on_upload when the handler
\* called it, else to the caller of the model.
AfterUpsert(p) == IF args[p].fn = "_on_upload" THEN "ou_set" ELSE "done"

\* Where an exception of upsert_document goes: into the except clause of
\* _on_upload when the handler called it, else to the caller of the model.
AfterUpsertRaised(p) ==
  IF args[p].fn = "_on_upload" THEN "ou_except" ELSE "done"

\* SELECT id FROM documents WHERE filename = :filename, then scalar_one():
\* the update case, where result.lastrowid is 0.
UdSelect(p) ==
  /\ pc[p] = "ud_select"
  /\ LET found == {r \in Select(p, "documents") : r.filename = args[p].filename}
     IN IF Cardinality(found) = 1
        THEN /\ result' = [result EXCEPT ![p].id = (CHOOSE r \in found : TRUE).id]
             /\ snap' = [snap EXCEPT ![p] = SnapAfterRead(p)]
             /\ pc' = [pc EXCEPT ![p] = "ud_commit"]
             /\ UNCHANGED <<documents, codes, coded_segments, pend, ret>>
        ELSE /\ RollbackTxn(p)
             /\ ret' = [ret EXCEPT ![p] = Raised("NoResultFound", "scalar_one")]
             /\ pc' = [pc EXCEPT ![p] = AfterUpsertRaised(p)]
             /\ UNCHANGED result
  /\ UNCHANGED <<nextId, isolation, args, overlap>>
  /\ UNCHANGED appvars

\* UdCommit as it would be were result.lastrowid returned in every case,
\* without the SELECT of the update case.
UdCommitLastRowId(p) ==
  /\ pc[p] \in {"ud_commit", "ud_select"}
  /\ CommitTxn(p)
  /\ ret' = [ret EXCEPT ![p] = Returned(result[p].lastrowid)]
  /\ pc' = [pc EXCEPT ![p] = "done"]
  /\ UNCHANGED <<nextId, isolation, args, result, overlap>>
  /\ UNCHANGED appvars

\* return int(doc_id): doc_id is result.lastrowid when that is not 0 and the
\* selected id otherwise; the with-block commits.
UdCommit(p) ==
  /\ pc[p] = "ud_commit"
  /\ CommitTxn(p)
  /\ ret' = [ret EXCEPT ![p] =
        Returned(IF result[p].lastrowid # 0
                 THEN result[p].lastrowid ELSE result[p].id)]
  /\ pc' = [pc EXCEPT ![p] = AfterUpsert(p)]
  /\ UNCHANGED <<nextId, isolation, args, result, overlap>>
  /\ UNCHANGED appvars

\* The filenames and contents callers upload.
Filenames == {"a.txt", "b.txt"}
Contents == { <<"a", "b">>, <<"b", "a">>, <<"é">> }

NextDoc ==
  \/ \E p \in Procs, f \in Filenames, c \in Contents :
       CallUpsertDocument(p, f, c)
  \/ \E p \in Procs : UdInsert(p)
  \/ \E p \in Procs : UdSelect(p)
  \/ \E p \in Procs : UdCommit(p)
  \/ \E p \in Procs : Return(p)

InitDoc == InitDB /\ NoHL /\ InitApp

\* The document store under concurrent upsert_document calls.
SpecDoc == InitDoc /\ [][NextDoc]_vars

----------------------------------------------------------------------------
(* insert_segment                                                          *)

\* insert_segment(engine, document_id, code_id, start, end, selected_text)
\* is called.  The two validations run before the transaction begins and
\* raise ValueError without a statement being sent.
CallInsertSegment(p, document_id, code_id, start, end, selected_text) ==
  LET call == [fn |-> "insert_segment", document_id |-> document_id,
               code_id |-> code_id, start |-> start, end |-> end,
               selected_text |-> selected_text]
      invalid == IF start < 0 \/ end <= start
                 THEN Raised("ValueError", "Invalid offset range")
                 ELSE IF Strip(selected_text) = <<>>
                 THEN Raised("ValueError", "Selected text cannot be empty")
                 ELSE NoRet
  IN /\ Begin(p, call, IF invalid = NoRet THEN "is_doc_check" ELSE "done")
     /\ ret' = [ret EXCEPT ![p] = invalid]
     /\ UNCHANGED <<documents, codes, coded_segments, nextId, isolation,
                    result, snap, pend>>
     /\ UNCHANGED appvars

\* CodeFound as it would be with the existence check of the code left out.
CodeFoundAlways(p) == TRUE

\* code_check: SELECT id FROM codes WHERE id = :id, then .first()
CodeFound(p) == \E r \in Select(p, "codes") : r.id = args[p].code_id

\* SELECT id FROM documents WHERE id = :id, then .first()
DocumentFound(p) == \E r \in Select(p, "documents") : r.id = args[p].document_id

\* The document check; raise ValueError("Document ... not found") when
\* there is no row.
IsDocCheck(p) ==
  /\ pc[p] = "is_doc_check"
  /\ IF DocumentFound(p)
     THEN /\ snap' = [snap EXCEPT ![p] = SnapAfterRead(p)]
          /\ pc' = [pc EXCEPT ![p] = "is_code_check"]
          /\ UNCHANGED <<documents, codes, coded_segments, pend, ret>>
     ELSE /\ RollbackTxn(p)
          /\ ret' = [ret EXCEPT ![p] = Raised("ValueError", "Document not found")]
          /\ pc' = [pc EXCEPT ![p] = "done"]
  /\ UNCHANGED <<nextId, isolation, args, result, overlap>>
  /\ UNCHANGED appvars

\* The code check; raise ValueError("Code ... not found") when there is no
\* row.
IsCodeCheck(p) ==
  /\ pc[p] = "is_code_check"
  /\ IF CodeFound(p)
     THEN /\ snap' = [snap EXCEPT ![p] = SnapAfterRead(p)]
          /\ pc' = [pc EXCEPT ![p] = "is_insert"]
          /\ UNCHANGED <<documents, codes, coded_segments, pend, ret>>
     ELSE /\ RollbackTxn(p)
          /\ ret' = [ret EXCEPT ![p] = Raised("ValueError", "Code not found")]
          /\ pc' = [pc EXCEPT ![p] = "done"]
  /\ UNCHANGED <<nextId, isolation, args, result, overlap>>
  /\ UNCHANGED appvars

\* SameSegment as it would be were uniq_segment to refuse every range that
\* overlaps a stored range of the same document and code.
SameSegmentOverlapping(r, a) ==
  /\ r.document_id = a.document_id
  /\ r.code_id = a.code_id
  /\ r.start_offset < a.end
  /\ a.start < r.end_offset

\* r and the call a have the same (document_id, code_id, start, end):
\* the columns of UNIQUE KEY uniq_segment.
SameSegment(r, a) ==
  /\ r.document_id = a.document_id
  /\ r.code_id = a.code_id
  /\ r.start_offset = a.start
  /\ r.end_offset = a.end

\* ParentsExist as it would be on a table without the two FOREIGN KEY
\* clauses: the INSERT checks no parent row.
ParentsExistUnchecked(p) == TRUE

\* FOREIGN KEY (document_id) REFERENCES documents(id), FOREIGN KEY (code_id)
\* REFERENCES codes(id): the check the INSERT makes on the current rows.
ParentsExist(p) ==
  /\ \E r \in documents : r.id = args[p].document_id
  /\ \E r \in codes : r.id = args[p].code_id

\* INSERT INTO coded_segments (...) VALUES (...)
\* The statement works on the current rows, not on the read view.  It waits
\* while another transaction holds an uncommitted row of the same
\* uniq_segment key, or an uncommitted write of the parent rows its
\* foreign-key checks lock.  It fails with IntegrityError on a missing
\* parent (foreign key), on chk_valid_offsets, and on a committed row of the
\* same key (uniq_segment); only the statement is undone, the transaction
\* goes on into the except clause, holding a shared lock on the row of the
\* same key.
IsInsert(p) ==
  /\ pc[p] = "is_insert"
  /\ \A r \in LockedByOthers(p, "coded_segments") : ~SameSegment(r, args[p])
  /\ \A r \in LockedByOthers(p, "documents") : r.id # args[p].document_id
  /\ \A r \in LockedByOthers(p, "codes") : r.id # args[p].code_id
  /\ IF ~ParentsExist(p)
     THEN \* except IntegrityError: no "uniq_segment" in the message: raise
          /\ RollbackTxn(p)
          /\ ret' = [ret EXCEPT ![p] = Raised("IntegrityError", "foreign key")]
          /\ pc' = [pc EXCEPT ![p] = "done"]
          /\ UNCHANGED <<nextId, result>>
     ELSE IF ~(args[p].start >= 0 /\ args[p].end > args[p].start)
     THEN /\ RollbackTxn(p)
          /\ ret' = [ret EXCEPT ![p] = Raised("IntegrityError", "chk_valid_offsets")]
          /\ pc' = [pc EXCEPT ![p] = "done"]
          /\ UNCHANGED <<nextId, result>>
     ELSE IF \E r \in coded_segments \cup Own(p, "coded_segments") :
               SameSegment(r, args[p])
     THEN \* except IntegrityError: "uniq_segment" is in the message
          /\ pend' = [pend EXCEPT ![p] = @ \cup
                {[tbl |-> "locked_segments", row |-> r] :
                   r \in {x \in coded_segments : SameSegment(x, args[p])}}]
          /\ pc' = [pc EXCEPT ![p] = "is_existing"]
          /\ UNCHANGED <<documents, codes, coded_segments, nextId, result,
                         ret, snap>>
     ELSE /\ pend' = [pend EXCEPT ![p] = @ \cup
                {[tbl |-> "coded_segments",
                  row |-> [id |-> nextId.coded_segments,
                           document_id |-> args[p].document_id,
                           code_id |-> args[p].code_id,
                           start_offset |-> args[p].start,
                           end_offset |-> args[p].end,
                           selected_text |-> args[p].selected_text,
                           created_at |-> clock]]}]
          /\ nextId' = [nextId EXCEPT !.coded_segments = @ + 1]
          /\ result' = [result EXCEPT ![p] =
                [NoResult EXCEPT !.lastrowid = nextId.coded_segments,
                                 !.rowcount = 1, !.id = nextId.coded_segments]]
          /\ pc' = [pc EXCEPT ![p] = "is_commit"]
          /\ UNCHANGED <<documents, codes, coded_segments, ret, snap>>
  /\ UNCHANGED <<isolation, args, overlap>>
  /\ UNCHANGED appvars

\* ExistingSegments as it would be were the duplicate never looked up.
ExistingSegmentsNone(p) == {}

\* SELECT id FROM coded_segments WHERE document_id = :doc_id AND code_id =
\* :code_id AND start_offset = :start AND end_offset = :end
ExistingSegments(p) ==
  {r \in Select(p, "coded_segments") : SameSegment(r, args[p])}

\* IsExisting as it would be were a duplicate whose row is not found
\* swallowed: the call returns without an id instead of raising.
IsExistingSwallows(p) ==
  /\ pc[p] = "is_existing"
  /\ LET found == ExistingSegments(p)
     IN /\ result' = [result EXCEPT ![p].id =
              IF found # {} THEN (CHOOSE r \in found : TRUE).id ELSE 0]
        /\ snap' = [snap EXCEPT ![p] = SnapAfterRead(p)]
        /\ pc' = [pc EXCEPT ![p] = "is_commit"]
        /\ UNCHANGED <<documents, codes, coded_segments, pend, ret>>
  /\ UNCHANGED <<nextId, isolation, args, overlap>>
  /\ UNCHANGED appvars

\* IsExisting as it would be were the duplicate resolved by writing the
\* call's selected_text into the existing row.
IsExistingOverwrites(p) ==
  /\ pc[p] = "is_existing"
  /\ LET found == ExistingSegments(p)
     IN IF found # {}
        THEN /\ result' = [result EXCEPT ![p].id = (CHOOSE r \in found : TRUE).id]
             /\ snap' = [snap EXCEPT ![p] = SnapAfterRead(p)]
             /\ pend' = [pend EXCEPT ![p] = @ \cup
                   {[tbl |-> "coded_segments",
                     row |-> [r EXCEPT !.selected_text = args[p].selected_text]] :
                      r \in found}]
             /\ pc' = [pc EXCEPT ![p] = "is_commit"]
             /\ UNCHANGED <<documents, codes, coded_segments, ret>>
        ELSE /\ RollbackTxn(p)
             /\ ret' = [ret EXCEPT ![p] = Raised("IntegrityError", "uniq_segment")]
             /\ pc' = [pc EXCEPT ![p] = "done"]
             /\ UNCHANGED result
  /\ UNCHANGED <<nextId, isolation, args, overlap>>
  /\ UNCHANGED appvars

\* In the except clause: the lookup of the existing row, then .first().  A
\* row found is returned; otherwise the IntegrityError is raised again.
IsExisting(p) ==
  /\ pc[p] = "is_existing"
  /\ LET found == ExistingSegments(p)
     IN IF found # {}
        THEN /\ result' = [result EXCEPT ![p].id = (CHOOSE r \in found : TRUE).id]
             /\ snap' = [snap EXCEPT ![p] = SnapAfterRead(p)]
             /\ pc' = [pc EXCEPT ![p] = "is_commit"]
             /\ UNCHANGED <<documents, codes, coded_segments, pend, ret>>
        ELSE /\ RollbackTxn(p)
             /\ ret' = [ret EXCEPT ![p] = Raised("IntegrityError", "uniq_segment")]
             /\ pc' = [pc EXCEPT ![p] = "done"]
             /\ UNCHANGED result
  /\ UNCHANGED <<nextId, isolation, args, overlap>>
  /\ UNCHANGED appvars

\* return int(segment_id) / return int(existing.id): the with-block commits.
IsCommit(p) ==
  /\ pc[p] = "is_commit"
  /\ CommitTxn(p)
  /\ ret' = [ret EXCEPT ![p] = Returned(result[p].id)]
  /\ pc' = [pc EXCEPT ![p] = "done"]
  /\ UNCHANGED <<nextId, isolation, args, result, overlap>>
  /\ UNCHANGED appvars

\* The arguments callers insert segments with.  Document 1 is the first
\* uploaded document and document 2 never exists; code 3 is a seed code and
\* code 4 never exists.  Well-formed calls: two overlapping ranges against
\* every document and code, and the first range again with another text.
\* Malformed calls: a negative start, end = start, end < start, a
\* whitespace-only text and an empty text, each against a stored and a
\* missing document.
SegDocIds == {1, 2}
SegCodeIds == {3, 4}
SegRanges == { <<0, 2>>, <<1, 3>> }
BadRanges == { <<0 - 1, 1>>, <<2, 2>>, <<2, 1>> }
BlankTexts == { <<" ">>, <<>> }
SegCalls ==
  {<<d, c, r, <<"a", "b">> >> : d \in SegDocIds, c \in SegCodeIds, r \in SegRanges}
    \cup {<<1, 3, <<0, 2>>, <<" ", "b">> >>}
    \cup {<<d, 3, r, <<"a", "b">> >> : d \in SegDocIds, r \in BadRanges}
    \cup {<<d, 3, <<0, 2>>, t>> : d \in SegDocIds, t \in BlankTexts}
SegFilenames == {"a.txt"}
SegContents == { <<"a", "b", "c">>, <<"é">> }

NextSeg ==
  \/ \E p \in Procs, f \in SegFilenames, c \in SegContents :
       CallUpsertDocument(p, f, c)
  \/ \E p \in Procs : UdInsert(p)
  \/ \E p \in Procs : UdSelect(p)
  \/ \E p \in Procs : UdCommit(p)
  \/ \E p \in Procs, c \in SegCalls :
       CallInsertSegment(p, c[1], c[2], c[3][1], c[3][2], c[4])
  \/ \E p \in Procs : IsDocCheck(p)
  \/ \E p \in Procs : IsCodeCheck(p)
  \/ \E p \in Procs : IsInsert(p)
  \/ \E p \in Procs : IsExisting(p)
  \/ \E p \in Procs : IsCommit(p)
  \/ \E p \in Procs : Return(p)

InitSeg == InitDB /\ NoHL /\ InitApp

\* The segment store under concurrent insert_segment and upsert_document
\* calls.
SpecSeg == InitSeg /\ [][NextSeg]_vars

----------------------------------------------------------------------------
(* highlight_text                                                          *)
(* The returned string is kept as the sequence of its pieces: one piece    *)
(* per escaped character of the text, and one per <mark ...> and </mark>   *)
(* tag.  html.escape never leaves a "<" in a piece of text, so the tags    *)
(* are the only pieces that begin with "<".                                *)

Min(a, b) == IF a < b THEN a ELSE b
Max(a, b) == IF a > b THEN a ELSE b

\* html.escape of one character (quote=True).
EscapeChar(c) ==
  CASE c = "&" -> "&amp;"
    [] c = "<" -> "&lt;"
    [] c = ">" -> "&gt;"
    [] c = "\"" -> "&quot;"
    [] c = "'" -> "&#x27;"
    [] OTHER -> c

\* html.escape(s)
HtmlEscape(s) == [i \in 1..Len(s) |-> EscapeChar(s[i])]

\* The Python slice s[a:b] for 0 <= a, b.
Slice(s, a, b) == SubSeq(s, a + 1, Min(b, Len(s)))

\* KeyLE as it would be with the key s["start_offset"] alone.
KeyLEStartOnly(a, b) == a.start_offset <= b.start_offset

\* The sort key (s["start_offset"], s["end_offset"]) of a is <= that of b.
KeyLE(a, b) ==
  \/ a.start_offset < b.start_offset
  \/ a.start_offset = b.start_offset /\ a.end_offset <= b.end_offset

RECURSIVE InsertByKey(_, _)
\* x put into the sorted list after every element whose key is <= its own.
InsertByKey(sorted, x) ==
  IF sorted = <<>> THEN <<x>>
  ELSE IF KeyLE(sorted[Len(sorted)], x) THEN Append(sorted, x)
  ELSE Append(InsertByKey(SubSeq(sorted, 1, Len(sorted) - 1), x),
              sorted[Len(sorted)])

RECURSIVE SortedSegments(_)
\* sorted(segments, key=lambda s: (s["start_offset"], s["end_offset"])):
\* ascending and stable (equal keys keep the order of the list).
SortedSegments(segs) ==
  IF segs = <<>> THEN <<>>
  ELSE InsertByKey(SortedSegments(SubSeq(segs, 1, Len(segs) - 1)),
                   segs[Len(segs)])

\* ClampStart as it would be with the start clamped to the last index of the
\* text, len(text) - 1, and not to len(text).
ClampStartLastIndex(seg, txt) ==
  Max(0, Min(seg.start_offset, Len(txt) - 1))

\* s = max(0, min(seg["start_offset"], len(text)))
ClampStart(seg, txt) == Max(0, Min(seg.start_offset, Len(txt)))

\* ClampEnd as it would be with the end clamped into [0, len(text)] on its
\* own, not kept at or after s.
ClampEndAlone(seg, txt) == Max(0, Min(seg.end_offset, Len(txt)))

\* ClampEnd as it would be with the end kept at or after s and not cut to
\* len(text).
ClampEndUncut(seg, txt) == Max(ClampStart(seg, txt), seg.end_offset)

\* e = max(s, min(seg["end_offset"], len(text)))
ClampEnd(seg, txt) == Max(ClampStart(seg, txt), Min(seg.end_offset, Len(txt)))

\* Skipped as it would be with "if s <= last: continue".
SkippedOrAdjacent(s, last) == s <= last

\* if s < last: continue
Skipped(s, last) == s < last

\* f"<mark {title_attr}>", the title left out for a falsy code_id.
MarkOpen(code_id) ==
  IF code_id = 0 THEN "<mark >"
  ELSE "<mark title=\"Code ID: " \o ToString(code_id) \o "\">"

MarkClose == "</mark>"

\* The plain run parts.append(html.escape(text[last:s])), added if s > last.
PlainRun(txt, last, s) ==
  IF s > last THEN HtmlEscape(Slice(txt, last, s)) ELSE <<>>

\* parts.append(f"<mark {title_attr}>" + html.escape(text[s:e]) + "</mark>")
MarkedRun(txt, seg, s, e) ==
  <<MarkOpen(seg.code_id)>> \o HtmlEscape(Slice(txt, s, e)) \o <<MarkClose>>

RECURSIVE Sweep(_, _, _, _)
\* The for loop over sorted_segments from index i on, with st = the parts
\* collected so far and the cursor last.
Sweep(txt, sorted, i, st) ==
  IF i > Len(sorted) THEN st
  ELSE LET seg == sorted[i]
           s == ClampStart(seg, txt)
           e == ClampEnd(seg, txt)
       IN IF Skipped(s, st.last)
          THEN Sweep(txt, sorted, i + 1, st)
          ELSE Sweep(txt, sorted, i + 1,
                     [parts |-> st.parts \o PlainRun(txt, st.last, s)
                                  \o MarkedRun(txt, seg, s, e),
                      last |-> e])

RECURSIVE MarkedRanges(_, _, _, _)
\* The pairs <<s, e>> of the segments the loop wraps in <mark>, from index
\* i on with the cursor at last, in the order of the loop.
MarkedRanges(txt, sorted, i, last) ==
  IF i > Len(sorted) THEN <<>>
  ELSE LET s == ClampStart(sorted[i], txt)
           e == ClampEnd(sorted[i], txt)
       IN IF Skipped(s, last)
          THEN MarkedRanges(txt, sorted, i + 1, last)
          ELSE << <<s, e>> >> \o MarkedRanges(txt, sorted, i + 1, e)

\* The tail parts.append(html.escape(text[last:])), added if last < len(text).
TrailingRun(txt, last) ==
  IF last < Len(txt) THEN HtmlEscape(Slice(txt, last, Len(txt))) ELSE <<>>

\* HighlightText as it would be with "if not segments: return text".
HighlightTextRawWhenEmpty(txt, segs) ==
  IF segs = <<>> THEN txt
  ELSE LET st == Sweep(txt, SortedSegments(segs), 1, [parts |-> <<>>, last |-> 0])
       IN st.parts \o TrailingRun(txt, st.last)

\* highlight_text(text, segments)
HighlightText(txt, segs) ==
  IF segs = <<>> THEN HtmlEscape(txt)
  ELSE LET st == Sweep(txt, SortedSegments(segs), 1, [parts |-> <<>>, last |-> 0])
       IN st.parts \o TrailingRun(txt, st.last)

\* Bounds of the renderer's inputs.
MaxLen == 2
MaxSegments == 2

\* Characters of the texts: a plain one and one html.escape rewrites.
Alphabet == {"a", "<"}
HLCodeIds == {3}

Texts == UNION {[1..n -> Alphabet] : n \in 0..MaxLen}
\* Offsets before, inside and past the end of the texts.
Offsets == {0 - 1, 0, 1, 2, 3}
\* A second code on the range [0, 1), for lists in which two segments tie on
\* (start_offset, end_offset) and differ in their code.
HLTies == {[start_offset |-> 0, end_offset |-> 1, code_id |-> 4]}
SegmentDicts ==
  [start_offset : Offsets, end_offset : Offsets, code_id : HLCodeIds]
    \cup HLTies
SegmentLists == UNION {[1..n -> SegmentDicts] : n \in 0..MaxSegments}

\* highlight_text is about to be called with some text and segment list.
InitHL ==
  /\ InitDB
  /\ InitApp
  /\ isolation = "REPEATABLE-READ"
  /\ text \in Texts
  /\ segments \in SegmentLists
  /\ markup = <<>>
  /\ hlpc = "input"

\* SegmentsAfterCall as it would be were the list sorted in place,
\* segments.sort(key=...).
SegmentsSortedInPlace(segs) == SortedSegments(segs)

\* The caller's list after the call: sorted() builds a new list and the loop
\* only reads the dicts, so the argument is left as it was.
SegmentsAfterCall(segs) == segs

\* The call html_content = highlight_text(text, segments).
Render ==
  /\ hlpc = "input"
  /\ markup' = HighlightText(text, segments)
  /\ segments' = SegmentsAfterCall(segments)
  /\ hlpc' = "done"
  /\ UNCHANGED text
  /\ UNCHANGED dbvars
  /\ UNCHANGED <<out, clock, session>>

\* docview is evaluated once more and calls highlight_text again with the
\* same text and the same list.
ReRender ==
  /\ hlpc = "done"
  /\ markup' = HighlightText(text, segments)
  /\ segments' = SegmentsAfterCall(segments)
  /\ hlpc' = "redone"
  /\ UNCHANGED text
  /\ UNCHANGED dbvars
  /\ UNCHANGED <<out, clock, session>>

NextHL == Render \/ ReRender

\* The renderer applied to every text and segment list within the bounds.
SpecHL == InitHL /\ [][NextHL]_vars

----------------------------------------------------------------------------
(* delete_segment, list_segments, list_codes                               *)
(* list_segments and list_codes run one SELECT on a connection of their    *)
(* own, so the call is one step that reads the committed rows.             *)

\* The value a finished call returned.
Value(kind, value) == [kind |-> kind, value |-> value]

\* delete_segment(engine, segment_id) is called.
CallDeleteSegment(p, segment_id) ==
  /\ Begin(p, [fn |-> "delete_segment", segment_id |-> segment_id],
           "ds_delete")
  /\ UNCHANGED <<documents, codes, coded_segments, nextId, isolation,
                 result, ret, snap, pend>>
  /\ UNCHANGED appvars

\* RowsToDelete as it would be with "WHERE id >= :id".
RowsToDeleteFrom(segment_id) == {r \in coded_segments : r.id >= segment_id}

\* The rows DELETE FROM coded_segments WHERE id = :id finds.
RowsToDelete(segment_id) == {r \in coded_segments : r.id = segment_id}

\* DELETE FROM coded_segments WHERE id = :id.  The statement reads the
\* latest committed rows and waits while another transaction holds the row.
DsDelete(p) ==
  /\ pc[p] = "ds_delete"
  /\ \A r \in LockedByOthers(p, "coded_segments") : r.id # args[p].segment_id
  /\ \A r \in SharedLockedByOthers(p) : r.id # args[p].segment_id
  /\ pend' = [pend EXCEPT ![p] = @ \cup
        {[tbl |-> "deleted_segments", row |-> r] :
           r \in RowsToDelete(args[p].segment_id)}]
  /\ result' = [result EXCEPT ![p] =
        [NoResult EXCEPT !.rowcount =
           Cardinality(RowsToDelete(args[p].segment_id))]]
  /\ pc' = [pc EXCEPT ![p] = "ds_commit"]
  /\ UNCHANGED <<documents, codes, coded_segments, nextId, isolation,
                 args, ret, snap, overlap>>
  /\ UNCHANGED appvars

\* deleted = result.rowcount > 0; return deleted: the with-block commits.
DsCommit(p) ==
  /\ pc[p] = "ds_commit"
  /\ CommitTxn(p)
  /\ out' = [out EXCEPT ![p] = Value("bool", result[p].rowcount > 0)]
  /\ pc' = [pc EXCEPT ![p] = "done"]
  /\ UNCHANGED <<nextId, isolation, args, result, ret, overlap>>
  /\ UNCHANGED <<hlvars, clock, session>>

\* The sequences that hold every element of the set S once.
Orderings(S) ==
  {f \in [1..Cardinality(S) -> S] :
     \A i, j \in 1..Cardinality(S) : i # j => f[i] # f[j]}

\* A row of list_segments: the segment's columns with c.name as code_name and
\* c.color as code_color.
SegmentWithCode(cs, c) ==
  [id |-> cs.id, document_id |-> cs.document_id, code_id |-> cs.code_id,
   start_offset |-> cs.start_offset, end_offset |-> cs.end_offset,
   selected_text |-> cs.selected_text, created_at |-> cs.created_at,
   code_name |-> c.name, code_color |-> c.color]

\* FROM coded_segments cs JOIN codes c ON cs.code_id = c.id
\* WHERE cs.document_id = :doc_id
SegmentsJoined(document_id) ==
  UNION { {SegmentWithCode(cs, c) : c \in {y \in codes : y.id = cs.code_id}} :
          cs \in {x \in coded_segments : x.document_id = document_id} }

\* ORDER BY cs.start_offset ASC, cs.created_at ASC: a before b is allowed.
SegmentOrderLE(a, b) ==
  \/ a.start_offset < b.start_offset
  \/ a.start_offset = b.start_offset /\ a.created_at <= b.created_at

\* The results the query can return: the joined rows in an order that is
\* ascending in (start_offset, created_at); rows equal in both come in any
\* order.
ListSegmentsResults(document_id) ==
  {f \in Orderings(SegmentsJoined(document_id)) :
     \A i, j \in DOMAIN f : i < j => SegmentOrderLE(f[i], f[j])}

\* list_segments(engine, document_id)
ListSegments(p, document_id) ==
  /\ Begin(p, [fn |-> "list_segments", document_id |-> document_id], "done")
  /\ \E rows \in ListSegmentsResults(document_id) :
       out' = [out EXCEPT ![p] = Value("rows", rows)]
  /\ UNCHANGED <<documents, codes, coded_segments, nextId, isolation,
                 result, ret, snap, pend>>
  /\ UNCHANGED <<hlvars, clock, session>>

\* The names of the model in the order of the column's collation
\* (utf8mb4_unicode_ci).
CollationOrder == <<"Idea", "Important", "Memo", "Question", "Theme">>
NameRank(name) == CHOOSE i \in DOMAIN CollationOrder : CollationOrder[i] = name

\* CodesListed as it would be with JOIN in place of LEFT JOIN.
CodesListedInnerJoin ==
  {c \in codes : \E cs \in coded_segments : cs.code_id = c.id}

\* FROM codes c LEFT JOIN coded_segments cs ...: every code has a group.
CodesListed == codes

\* A row of list_codes: COUNT(cs.id) as usage_count.
CodeWithUsage(c) ==
  [id |-> c.id, name |-> c.name, description |-> c.description,
   color |-> c.color,
   usage_count |-> Cardinality({cs \in coded_segments : cs.code_id = c.id})]

\* GROUP BY c.id, ... ORDER BY c.name
ListCodesResult ==
  CHOOSE f \in Orderings({CodeWithUsage(c) : c \in CodesListed}) :
    \A i, j \in DOMAIN f : i < j => NameRank(f[i].name) < NameRank(f[j].name)

\* list_codes(engine)
ListCodes(p) ==
  /\ Begin(p, [fn |-> "list_codes"], "done")
  /\ out' = [out EXCEPT ![p] = Value("rows", ListCodesResult)]
  /\ UNCHANGED <<documents, codes, coded_segments, nextId, isolation,
                 result, ret, snap, pend>>
  /\ UNCHANGED <<hlvars, clock, session>>

\* Bounds of the listing model: seconds the clock runs, and segment ids
\* AUTO_INCREMENT hands out.
MaxClock == 1
MaxSegmentId == 2

\* A second passes on the server.
Tick ==
  /\ clock < MaxClock
  /\ clock' = clock + 1
  /\ UNCHANGED dbvars
  /\ UNCHANGED <<hlvars, out, session>>

\* The document the segments of the listing model belong to.
ListDocument ==
  DocumentRow(1, [filename |-> "a.txt", content |-> <<"a", "b", "c">>,
                  content_hash |-> CalculateContentHash(<<"a", "b", "c">>),
                  file_size |-> 3, char_count |-> 3])

\* insert_segment calls: two ranges with the same start under different
\* codes, and a range that starts later.
ListCalls ==
  { <<1, 3, <<0, 2>>, <<"a", "b">> >>,
    <<1, 1, <<0, 1>>, <<"a">> >>,
    <<1, 3, <<1, 2>>, <<"b">> >> }
ListSegmentIds == {1, 2}
ListCodeNames == {"Memo"}

\* The caller that inserts segments and creates codes, and the caller that
\* lists while it does; both delete.
Writers == {"p1"}
Readers == {"p2"}

NextList ==
  \/ \E p \in Writers, c \in ListCalls :
       /\ nextId.coded_segments <= MaxSegmentId
       /\ CallInsertSegment(p, c[1], c[2], c[3][1], c[3][2], c[4])
  \/ \E p \in Writers : IsDocCheck(p)
  \/ \E p \in Writers : IsCodeCheck(p)
  \/ \E p \in Writers : IsInsert(p)
  \/ \E p \in Writers : IsExisting(p)
  \/ \E p \in Writers : IsCommit(p)
  \/ \E p \in Procs, id \in ListSegmentIds : CallDeleteSegment(p, id)
  \/ \E p \in Procs : DsDelete(p)
  \/ \E p \in Procs : DsCommit(p)
  \/ \E p \in Writers, name \in ListCodeNames :
       CallCreateCode(p, name, None, None)
  \/ \E p \in Writers : CcInsert(p)
  \/ \E p \in Writers : CcSelect(p)
  \/ \E p \in Writers : CcCommit(p)
  \/ \E p \in Readers : ListSegments(p, 1)
  \/ \E p \in Readers : ListCodes(p)
  \/ \E p \in Procs : Return(p)
  \/ Tick

\* The store with one document uploaded.
InitList ==
  /\ documents = {ListDocument}
  /\ codes = SeedCodes
  /\ coded_segments = {}
  /\ nextId = [documents |-> 2, codes |-> 4, coded_segments |-> 1]
  /\ isolation \in IsolationLevels
  /\ pc = [p \in Procs |-> "idle"]
  /\ args = [p \in Procs |-> Idle]
  /\ result = [p \in Procs |-> NoResult]
  /\ ret = [p \in Procs |-> NoRet]
  /\ snap = [p \in Procs |-> NoSnap]
  /\ pend = [p \in Procs |-> {}]
  /\ overlap = [p \in Procs |-> FALSE]
  /\ NoHL
  /\ InitApp

\* Segments inserted, deleted and listed, codes created and listed.
SpecList == InitList /\ [][NextList]_vars

----------------------------------------------------------------------------
(* Segments that differ in one column of uniq_segment.                     *)

\* A second document, stored beside ListDocument.
NearDocument ==
  DocumentRow(2, [filename |-> "b.txt", content |-> <<"a", "b", "c">>,
                  content_hash |-> CalculateContentHash(<<"a", "b", "c">>),
                  file_size |-> 3, char_count |-> 3])

\* insert_segment calls: a range, an overlapping range, the first range under
\* another code and in another document; and malformed ranges (a negative
\* start, end = start, end < start).
NearCalls ==
  { <<1, 3, <<0, 2>>, <<"a", "b">> >>,
    <<1, 3, <<1, 3>>, <<"b", "c">> >>,
    <<1, 1, <<0, 2>>, <<"a", "b">> >>,
    <<2, 3, <<0, 2>>, <<"a", "b">> >>,
    <<1, 3, <<0 - 1, 1>>, <<"a">> >>,
    <<1, 3, <<2, 2>>, <<"c">> >>,
    <<1, 3, <<2, 1>>, <<"b">> >> }

NextNear ==
  \/ \E p \in Procs, c \in NearCalls :
       /\ nextId.coded_segments <= MaxSegmentId
       /\ CallInsertSegment(p, c[1], c[2], c[3][1], c[3][2], c[4])
  \/ \E p \in Procs : IsDocCheck(p)
  \/ \E p \in Procs : IsCodeCheck(p)
  \/ \E p \in Procs : IsInsert(p)
  \/ \E p \in Procs : IsExisting(p)
  \/ \E p \in Procs : IsCommit(p)
  \/ \E p \in Procs : Return(p)

\* The store with two documents uploaded.
InitNear ==
  /\ documents = {ListDocument, NearDocument}
  /\ codes = SeedCodes
  /\ coded_segments = {}
  /\ nextId = [documents |-> 3, codes |-> 4, coded_segments |-> 1]
  /\ isolation \in IsolationLevels
  /\ pc = [p \in Procs |-> "idle"]
  /\ args = [p \in Procs |-> Idle]
  /\ result = [p \in Procs |-> NoResult]
  /\ ret = [p \in Procs |-> NoRet]
  /\ snap = [p \in Procs |-> NoSnap]
  /\ pend = [p \in Procs |-> {}]
  /\ overlap = [p \in Procs |-> FALSE]
  /\ NoHL
  /\ InitApp

\* Segments inserted into two documents under two codes.
SpecNear == InitNear /\ [][NextNear]_vars

----------------------------------------------------------------------------
(* Every writing operation of db.py on a store that holds segments.        *)

\* insert_segment calls: a range, the same range again with another text,
\* and an overlapping range.
FrameCalls ==
  { <<1, 3, <<0, 2>>, <<"a", "b">> >>,
    <<1, 3, <<0, 2>>, <<"a", "b", " ">> >>,
    <<1, 3, <<1, 3>>, <<"b", "c">> >> }

\* The contents the stored document is overwritten with.
FrameContents == { <<"x", "y">>, <<"a", "b", "c">> }

\* Writers insert segments; Readers, here, overwrite the document and create
\* codes; both delete segments.
NextFrame ==
  \/ \E p \in Writers, c \in FrameCalls :
       /\ nextId.coded_segments <= MaxSegmentId
       /\ CallInsertSegment(p, c[1], c[2], c[3][1], c[3][2], c[4])
  \/ \E p \in Writers : IsDocCheck(p)
  \/ \E p \in Writers : IsCodeCheck(p)
  \/ \E p \in Writers : IsInsert(p)
  \/ \E p \in Writers : IsExisting(p)
  \/ \E p \in Writers : IsCommit(p)
  \/ \E p \in Procs, id \in ListSegmentIds : CallDeleteSegment(p, id)
  \/ \E p \in Procs : DsDelete(p)
  \/ \E p \in Procs : DsCommit(p)
  \/ \E p \in Readers, c \in FrameContents :
       CallUpsertDocument(p, ListDocument.filename, c)
  \/ \E p \in Readers : UdInsert(p)
  \/ \E p \in Readers : UdSelect(p)
  \/ \E p \in Readers : UdCommit(p)
  \/ \E p \in Readers, name \in ListCodeNames :
       CallCreateCode(p, name, None, None)
  \/ \E p \in Readers : CcInsert(p)
  \/ \E p \in Readers : CcSelect(p)
  \/ \E p \in Readers : CcCommit(p)
  \/ \E p \in Procs : Return(p)

\* The store written by all its operations.
SpecFrame == InitList /\ [][NextFrame]_vars

----------------------------------------------------------------------------
(* Removal of a document or of a code.                                     *)
(* db.py has no function that deletes a documents or a codes row; the rows *)
(* are removed by a DELETE statement of some client of the database, which *)
(* the schema of init_db answers with ON DELETE CASCADE.  The statement is *)
(* one autocommitted step.                                                 *)

\* The coded_segments rows that reference row id through column col.
Referencing(rows, col, id) == {s \in rows : s[col] = id}

\* Uncommitted inserts and deletes of segments that reference row id through
\* col, and segments locked by a refused duplicate: their transactions hold
\* the shared lock the foreign-key check took on the parent row, or a lock
\* of a child row the cascade has to delete.
ChildLocks(col, id) ==
  UNION {Referencing(Own(q, "coded_segments") \cup Deleted(q, "coded_segments")
                       \cup Own(q, "locked_segments"),
                     col, id) : q \in Procs}

\* ON DELETE CASCADE: the segments left when parent row id is deleted.
CascadeKeeps(rows, col, id) == rows \ Referencing(rows, col, id)

\* DELETE FROM documents WHERE id = :id
DeleteDocument(id) ==
  /\ \E r \in documents : r.id = id
  /\ ChildLocks("document_id", id) = {}
  /\ \A q \in Procs : \A r \in Own(q, "documents") : r.id # id
  /\ documents' = {r \in documents : r.id # id}
  /\ coded_segments' = CascadeKeeps(coded_segments, "document_id", id)
  /\ UNCHANGED <<codes, nextId, isolation, pc, args, result, ret, snap, pend,
                 overlap>>
  /\ UNCHANGED appvars

\* DELETE FROM codes WHERE id = :id
DeleteCode(id) ==
  /\ \E r \in codes : r.id = id
  /\ ChildLocks("code_id", id) = {}
  /\ \A q \in Procs : \A r \in Own(q, "codes") : r.id # id
  /\ codes' = {r \in codes : r.id # id}
  /\ coded_segments' = CascadeKeeps(coded_segments, "code_id", id)
  /\ UNCHANGED <<documents, nextId, isolation, pc, args, result, ret, snap,
                 pend, overlap>>
  /\ UNCHANGED appvars

\* insert_segment calls: one range twice with different texts, a second
\* range, and the first range under another code.
RefCalls ==
  { <<1, 3, <<0, 2>>, <<"a", "b">> >>,
    <<1, 3, <<0, 2>>, <<"a", "b", " ">> >>,
    <<1, 3, <<1, 3>>, <<"b", "c">> >>,
    <<1, 1, <<0, 2>>, <<"a", "b">> >> }
RefDocIds == {1}
RefCodeIds == {1, 3}

NextRef ==
  \/ \E p \in Procs, c \in RefCalls :
       /\ nextId.coded_segments <= MaxSegmentId
       /\ CallInsertSegment(p, c[1], c[2], c[3][1], c[3][2], c[4])
  \/ \E p \in Procs : IsDocCheck(p)
  \/ \E p \in Procs : IsCodeCheck(p)
  \/ \E p \in Procs : IsInsert(p)
  \/ \E p \in Procs : IsExisting(p)
  \/ \E p \in Procs : IsCommit(p)
  \/ \E id \in RefDocIds : DeleteDocument(id)
  \/ \E id \in RefCodeIds : DeleteCode(id)
  \/ \E p \in Procs : Return(p)

\* Segments inserted while the document and the codes are removed.
SpecRef == InitList /\ [][NextRef]_vars

----------------------------------------------------------------------------
(* get_text_for_display                                                    *)
(* get_document and get_document_preview each run one SELECT on a          *)
(* connection of their own (engine.connect()), so each reads the rows      *)
(* committed when it runs, and a writer may commit between the two.        *)

\* MAX_PREVIEW_SIZE, 1024 * 1024 characters in app.py, scaled to the texts
\* of the model.
MAX_PREVIEW_SIZE == 2

\* "Document not found", as characters.
DocumentNotFoundText ==
  <<"D", "o", "c", "u", "m", "e", "n", "t", " ", "n", "o", "t", " ", "f",
    "o", "u", "n", "d">>

\* "\n\n[... Document truncated for display. Full document is saved in
\* database ...]", as characters.
TruncationNotice ==
  <<"\n", "\n", "[", ".", ".", ".", " ", "D", "o", "c", "u", "m", "e", "n",
    "t", " ", "t", "r", "u", "n", "c", "a", "t", "e", "d", " ", "f", "o",
    "r", " ", "d", "i", "s", "p", "l", "a", "y", ".", " ", "F", "u", "l",
    "l", " ", "d", "o", "c", "u", "m", "e", "n", "t", " ", "i", "s", " ",
    "s", "a", "v", "e", "d", " ", "i", "n", " ", "d", "a", "t", "a", "b",
    "a", "s", "e", " ", ".", ".", ".", "]">>

\* get_document(engine, doc_id): the rows SELECT ... WHERE id = :id finds.
GetDocument(doc_id) == {r \in documents : r.id = doc_id}

\* Left as it would be were the whole column selected.
LeftWhole(content, max_chars) == content

\* SQL LEFT(content, max_chars)
Left(content, max_chars) == SubSeq(content, 1, Min(max_chars, Len(content)))

\* get_document_preview(engine, doc_id, max_chars): row.preview if row else "".
GetDocumentPreview(doc_id, max_chars) ==
  IF GetDocument(doc_id) = {} THEN <<>>
  ELSE Left((CHOOSE r \in GetDocument(doc_id) : TRUE).content, max_chars)

\* The pair (text_content, is_preview) the call returns; found and read are
\* what get_document returned to the call: whether a row, and its content.
Display(txt, is_preview, found, read) ==
  [kind |-> "display", text |-> txt, is_preview |-> is_preview,
   found |-> found, read |-> read]

\* get_text_for_display(doc_id) is called.
CallGetTextForDisplay(p, doc_id) ==
  /\ Begin(p, [fn |-> "get_text_for_display", doc_id |-> doc_id],
           "gtd_get_document")
  /\ UNCHANGED <<documents, codes, coded_segments, nextId, isolation,
                 result, ret, snap, pend>>
  /\ UNCHANGED appvars

\* Where get_text_for_display returns to: into _open_existing when the handler
\* called it, else to the caller of the model.
AfterDisplay(p) ==
  IF args[p].fn = "_open_existing" THEN "oe_display" ELSE "done"

\* IsSmallEnough as it would be with "len(content) < MAX_PREVIEW_SIZE".
IsSmallEnoughStrict(content) == Len(content) < MAX_PREVIEW_SIZE

\* if len(content) <= MAX_PREVIEW_SIZE
IsSmallEnough(content) == Len(content) <= MAX_PREVIEW_SIZE

\* doc = get_document(engine, doc_id), then the two early returns.
GtdGetDocument(p) ==
  /\ pc[p] = "gtd_get_document"
  /\ IF GetDocument(args[p].doc_id) = {}
     THEN /\ out' = [out EXCEPT ![p] =
                      Display(DocumentNotFoundText, FALSE, FALSE, <<>>)]
          /\ pc' = [pc EXCEPT ![p] = AfterDisplay(p)]
     ELSE LET doc == CHOOSE r \in GetDocument(args[p].doc_id) : TRUE
          IN IF IsSmallEnough(doc.content)
             THEN /\ out' = [out EXCEPT ![p] =
                              Display(doc.content, FALSE, TRUE, doc.content)]
                  /\ pc' = [pc EXCEPT ![p] = AfterDisplay(p)]
             ELSE /\ out' = [out EXCEPT ![p] =
                              [kind |-> "content", read |-> doc.content]]
                  /\ pc' = [pc EXCEPT ![p] = "gtd_get_preview"]
  /\ UNCHANGED <<documents, codes, coded_segments, nextId, isolation,
                 args, result, ret, snap, pend, overlap>>
  /\ UNCHANGED <<hlvars, clock, session>>

\* preview + "\n\n[... Document truncated for display. ...]"
DisplayedPreview(preview) == preview \o TruncationNotice

\* preview = get_document_preview(engine, doc_id, MAX_PREVIEW_SIZE) and the
\* return of the preview with the notice.
GtdGetPreview(p) ==
  /\ pc[p] = "gtd_get_preview"
  /\ out' = [out EXCEPT ![p] =
       Display(DisplayedPreview(
                 GetDocumentPreview(args[p].doc_id, MAX_PREVIEW_SIZE)),
               TRUE, TRUE, out[p].read)]
  /\ pc' = [pc EXCEPT ![p] = AfterDisplay(p)]
  /\ UNCHANGED <<documents, codes, coded_segments, nextId, isolation,
                 args, result, ret, snap, pend, overlap>>
  /\ UNCHANGED <<hlvars, clock, session>>

\* The documents the display is asked for: one that gets stored and one
\* that never is.
ViewDocIds == {1, 2}
ViewFilenames == {"a.txt"}
\* Contents below, at and above the threshold.
ViewContents ==
  { <<"a", "b">>, <<"a", "b", "c">>, <<"b", "a", "c", "d">> }

NextView ==
  \/ \E p \in Procs, f \in ViewFilenames, c \in ViewContents :
       CallUpsertDocument(p, f, c)
  \/ \E p \in Procs : UdInsert(p)
  \/ \E p \in Procs : UdSelect(p)
  \/ \E p \in Procs : UdCommit(p)
  \/ \E p \in Procs, d \in ViewDocIds : CallGetTextForDisplay(p, d)
  \/ \E p \in Procs : GtdGetDocument(p)
  \/ \E p \in Procs : GtdGetPreview(p)
  \/ \E p \in Procs : Return(p)

InitView == InitDB /\ NoHL /\ InitApp

\* Documents displayed while they are uploaded and overwritten.
SpecView == InitView /\ [][NextView]_vars

\* Two versions of one document: one longer than the threshold and a short
\* one that is not the beginning of the long one.
OverwriteContents == { <<"b", "a", "c", "d">>, <<"a", "b">> }

NextOverwrite ==
  \/ \E p \in Procs, f \in ViewFilenames, c \in OverwriteContents :
       CallUpsertDocument(p, f, c)
  \/ \E p \in Procs : UdInsert(p)
  \/ \E p \in Procs : UdSelect(p)
  \/ \E p \in Procs : UdCommit(p)
  \/ \E p \in Procs, d \in ViewDocIds : CallGetTextForDisplay(p, d)
  \/ \E p \in Procs : GtdGetDocument(p)
  \/ \E p \in Procs : GtdGetPreview(p)
  \/ \E p \in Procs : Return(p)

\* A document displayed while another caller overwrites it with a version
\* on the other side of the threshold.
SpecOverwrite == InitView /\ [][NextOverwrite]_vars

----------------------------------------------------------------------------
(* A document rendered with its segments after it was overwritten.         *)

\* The keys highlight_text subscripts, seg["start_offset"] and
\* seg["end_offset"], are keys of every row of the list.
Subscriptable(segs) ==
  \A i \in 1..Len(segs) : {"start_offset", "end_offset"} \subseteq DOMAIN segs[i]

\* docview's two calls for the document doc_id and the text txt:
\* segments = list_segments(engine, int(doc_id)) and
\* html_content = highlight_text(text, segments); a missing key ends the
\* call in KeyError.
DocView(doc_id, txt) ==
  /\ \E rows \in ListSegmentsResults(doc_id) :
       /\ segments' = rows
       /\ IF Subscriptable(rows)
          THEN markup' = HighlightText(txt, rows) /\ hlpc' = "done"
          ELSE markup' = <<>> /\ hlpc' = "raised"
  /\ text' = txt
  /\ UNCHANGED dbvars
  /\ UNCHANGED <<out, clock, session>>

\* The document as first stored: three characters, one of which
\* html.escape rewrites.
ShrinkDocument ==
  DocumentRow(1, [filename |-> "a.txt", content |-> <<"a", "<", "a">>,
                  content_hash |-> CalculateContentHash(<<"a", "<", "a">>),
                  file_size |-> 3, char_count |-> 3])

\* Segments of the document as first stored: two that overlap and one at
\* its end.
ShrinkCalls ==
  { <<1, 3, <<0, 2>>, <<"a", "<">> >>,
    <<1, 3, <<1, 3>>, <<"<", "a">> >>,
    <<1, 1, <<2, 3>>, <<"a">> >> }

\* The contents the document is overwritten with: shorter than the
\* segments' offsets, and empty.
ShrinkContents == { <<"a">>, <<>> }

\* Writers insert segments, Readers overwrite the document, and the
\* document is rendered with the content stored at the time.
NextShrink ==
  \/ \E p \in Writers, c \in ShrinkCalls :
       /\ nextId.coded_segments <= MaxSegmentId
       /\ CallInsertSegment(p, c[1], c[2], c[3][1], c[3][2], c[4])
  \/ \E p \in Writers : IsDocCheck(p)
  \/ \E p \in Writers : IsCodeCheck(p)
  \/ \E p \in Writers : IsInsert(p)
  \/ \E p \in Writers : IsExisting(p)
  \/ \E p \in Writers : IsCommit(p)
  \/ \E p \in Readers, c \in ShrinkContents :
       CallUpsertDocument(p, ShrinkDocument.filename, c)
  \/ \E p \in Readers : UdInsert(p)
  \/ \E p \in Readers : UdSelect(p)
  \/ \E p \in Readers : UdCommit(p)
  \/ \E d \in documents : DocView(d.id, d.content)
  \/ \E p \in Procs : Return(p)

InitShrink ==
  /\ documents = {ShrinkDocument}
  /\ codes = SeedCodes
  /\ coded_segments = {}
  /\ nextId = [documents |-> 2, codes |-> 4, coded_segments |-> 1]
  /\ isolation \in IsolationLevels
  /\ pc = [p \in Procs |-> "idle"]
  /\ args = [p \in Procs |-> Idle]
  /\ result = [p \in Procs |-> NoResult]
  /\ ret = [p \in Procs |-> NoRet]
  /\ snap = [p \in Procs |-> NoSnap]
  /\ pend = [p \in Procs |-> {}]
  /\ overlap = [p \in Procs |-> FALSE]
  /\ NoHL
  /\ InitApp

\* The stored document overwritten with shorter contents while segments are
\* inserted, and rendered.
SpecShrink == InitShrink /\ [][NextShrink]_vars

----------------------------------------------------------------------------
(* The session's event handlers (server).                                  *)
(* show_status sets status_message and status_type, and _apply_code reads  *)
(* current_selection; server() binds none of the three names and neither   *)
(* does the module, so evaluating any of them raises NameError.  A handler *)
(* calls show_status on each of its paths and again in its except clause,  *)
(* so the NameError leaves the handler; what it assigned before stays.     *)

\* show_status(message, type_): status_message is not defined.
ShowStatus(message) == Raised("NameError", "status_message")

\* current_selection.get(): current_selection is not defined; the except
\* clause then calls show_status.
CurrentSelectionGet == Raised("NameError", "status_message")

\* The metadata _open_existing sets.
OpenMetadata(doc, is_preview) ==
  [kind |-> "opened", char_count |-> Len(doc.content),
   is_preview |-> is_preview, filename |-> doc.filename]

\* metadata.get('is_preview')
IsPreview(metadata) == metadata.kind = "opened" /\ metadata.is_preview

\* The text of an input field is kept as its pieces: blanks, and the name
\* typed as one piece.  The string of a stripped input: "" or the name.
InputString(pieces) == IF pieces = <<>> THEN "" ELSE pieces[1]

\* The Open event: name = (input.open_filename() or "").strip(), and the
\* status for an empty name.
CallOpenExisting(p, open_filename) ==
  /\ IF Strip(open_filename) = <<>>
     THEN /\ Begin(p, [fn |-> "_open_existing", name |-> ""], "done")
          /\ ret' = [ret EXCEPT ![p] = ShowStatus("Please enter a filename")]
     ELSE /\ Begin(p, [fn |-> "_open_existing",
                       name |-> InputString(Strip(open_filename))],
                   "oe_find_document")
          /\ UNCHANGED ret
  /\ UNCHANGED <<documents, codes, coded_segments, nextId, isolation,
                 result, snap, pend>>
  /\ UNCHANGED appvars

\* find_document_by_name(engine, filename): the rows SELECT ... WHERE
\* filename = :filename finds.
FindDocumentByName(filename) == {r \in documents : r.filename = filename}

\* doc = find_document_by_name(engine, name); a document found becomes the
\* current one and get_text_for_display(doc["id"]) is called.
OeFindDocument(p) ==
  /\ pc[p] = "oe_find_document"
  /\ IF FindDocumentByName(args[p].name) = {}
     THEN /\ ret' = [ret EXCEPT ![p] = ShowStatus("Document not found")]
          /\ pc' = [pc EXCEPT ![p] = "done"]
          /\ UNCHANGED <<args, session>>
     ELSE LET doc == CHOOSE r \in FindDocumentByName(args[p].name) : TRUE
          IN /\ session' = [session EXCEPT ![p].current_doc_id = doc.id]
             /\ args' = [args EXCEPT ![p] =
                           [fn |-> "_open_existing", name |-> args[p].name,
                            doc_id |-> doc.id, doc |-> doc]]
             /\ pc' = [pc EXCEPT ![p] = "gtd_get_document"]
             /\ UNCHANGED ret
  /\ UNCHANGED <<documents, codes, coded_segments, nextId, isolation,
                 result, snap, pend, overlap>>
  /\ UNCHANGED <<hlvars, out, clock>>

\* current_text.set(display_text), current_metadata.set(metadata) and the
\* status that follows.
OeDisplay(p) ==
  /\ pc[p] = "oe_display"
  /\ session' = [session EXCEPT
                   ![p].current_text = out[p].text,
                   ![p].current_metadata =
                      OpenMetadata(args[p].doc, out[p].is_preview)]
  /\ ret' = [ret EXCEPT ![p] = ShowStatus("Document loaded")]
  /\ pc' = [pc EXCEPT ![p] = "done"]
  /\ UNCHANGED <<documents, codes, coded_segments, nextId, isolation,
                 args, result, snap, pend, overlap>>
  /\ UNCHANGED <<hlvars, out, clock>>

\* MAX_FILE_SIZE, 50 * 1024 * 1024 bytes in app.py, scaled to the texts of
\* the model; as in app.py it is larger than MAX_PREVIEW_SIZE.
MAX_FILE_SIZE == 3

\* FileTooLarge as it would be were validate_file_size never to raise.
FileTooLargeNever(size) == FALSE

\* validate_file_size: if size > max_size: raise ValueError("File too large")
FileTooLarge(size) == size > MAX_FILE_SIZE

\* content.count('\n') + 1
LineCount(content) ==
  Cardinality({i \in 1..Len(content) : content[i] = "\n"}) + 1

\* The metadata sniff_text returns for a file of UTF-8 text; it has no
\* 'is_preview' key.
UploadMetadata(content) ==
  [kind |-> "uploaded", encoding |-> "utf-8", size_bytes |-> Utf8Len(content),
   char_count |-> Len(content), line_count |-> LineCount(content)]

\* The upload event with a file of UTF-8 text: sniff_text validates the size
\* of the file and raises, or reads it, and upsert_document is called with
\* what was read.  filename is the name secure_filename returned.
CallOnUpload(p, filename, content) ==
  /\ IF FileTooLarge(Utf8Len(content))
     THEN /\ Begin(p, [fn |-> "_on_upload", filename |-> filename,
                       size_bytes |-> Utf8Len(content)], "ou_except")
          /\ ret' = [ret EXCEPT ![p] = Raised("ValueError", "File too large")]
     ELSE /\ Begin(p, [fn |-> "_on_upload", filename |-> filename,
                       size_bytes |-> Utf8Len(content),
                       content |-> content,
                       content_hash |-> CalculateContentHash(content),
                       file_size |-> Utf8Len(content),
                       char_count |-> Len(content),
                       metadata |-> UploadMetadata(content)], "ud_insert")
          /\ UNCHANGED ret
  /\ UNCHANGED <<documents, codes, coded_segments, nextId, isolation,
                 result, snap, pend>>
  /\ UNCHANGED appvars

\* except Exception as e: show_status("Upload failed: ...", "error"), which
\* raises in its turn; session.run_js is not reached.
OuExcept(p) ==
  /\ pc[p] = "ou_except"
  /\ ret' = [ret EXCEPT ![p] = ShowStatus("Upload failed")]
  /\ pc' = [pc EXCEPT ![p] = "done"]
  /\ UNCHANGED <<documents, codes, coded_segments, nextId, isolation,
                 args, result, snap, pend, overlap>>
  /\ UNCHANGED appvars

\* current_doc_id.set(doc_id), current_text.set(text),
\* current_metadata.set(metadata), then show_status(...), which raises; the
\* except clause calls show_status again.
OuSet(p) ==
  /\ pc[p] = "ou_set"
  /\ session' = [session EXCEPT
                   ![p].current_doc_id = ret[p].id,
                   ![p].current_text = args[p].content,
                   ![p].current_metadata = args[p].metadata]
  /\ ret' = [ret EXCEPT ![p] = ShowStatus("Upload failed")]
  /\ pc' = [pc EXCEPT ![p] = "done"]
  /\ UNCHANGED <<documents, codes, coded_segments, nextId, isolation,
                 args, result, snap, pend, overlap>>
  /\ UNCHANGED <<hlvars, out, clock>>

\* The user selects text in the displayed document: the script of docview
\* sets the input text_selection (it is there only when a document with
\* text is displayed, and sends no selection of blank text), and selinfo is
\* evaluated: current_selection.set(sel) raises NameError.
SelInfo(p, sel) ==
  /\ session[p].current_doc_id # 0
  /\ session[p].current_text # <<>>
  /\ Strip(sel.text) # <<>>
  /\ Begin(p, [fn |-> "selinfo", sel |-> sel], "done")
  /\ ret' = [ret EXCEPT ![p] = Raised("NameError", "current_selection")]
  /\ session' = [session EXCEPT
                   ![p].text_selection = sel,
                   ![p].selected_on = session[p].current_doc_id]
  /\ UNCHANGED <<documents, codes, coded_segments, nextId, isolation,
                 result, snap, pend>>
  /\ UNCHANGED <<hlvars, out, clock>>

\* ApplyCode as it would be were current_selection a reactive value that
\* selinfo sets and show_status a function that returns: the checks of the
\* handler, then insert_segment, here in one step.
ApplyCodeBound(p, code_id) ==
  LET sel == session[p].text_selection
      doc_id == session[p].current_doc_id
      refused ==
        \/ sel = NoSelection
        \/ code_id = 0
        \/ doc_id = 0
        \/ IsPreview(session[p].current_metadata)
        \/ sel.start < 0 \/ sel.end <= sel.start
        \/ Strip(sel.text) = <<>>
        \/ \A d \in documents : d.id # doc_id
        \/ \A c \in codes : c.id # code_id
        \/ \E r \in coded_segments :
             /\ r.document_id = doc_id /\ r.code_id = code_id
             /\ r.start_offset = sel.start /\ r.end_offset = sel.end
  IN /\ Begin(p, [fn |-> "_apply_code", code_id |-> code_id], "done")
     /\ ret' = [ret EXCEPT ![p] = Returned(0)]
     /\ IF refused
        THEN UNCHANGED <<coded_segments, nextId>>
        ELSE /\ coded_segments' = coded_segments \cup
                  {[id |-> nextId.coded_segments, document_id |-> doc_id,
                    code_id |-> code_id, start_offset |-> sel.start,
                    end_offset |-> sel.end, selected_text |-> sel.text,
                    created_at |-> clock]}
             /\ nextId' = [nextId EXCEPT !.coded_segments = @ + 1]
     /\ UNCHANGED <<documents, codes, isolation, result, snap, pend>>
     /\ UNCHANGED appvars

\* The Apply event: sel = current_selection.get() or input.text_selection()
\* raises before anything else of the handler runs.
ApplyCode(p, code_id) ==
  /\ Begin(p, [fn |-> "_apply_code", code_id |-> code_id], "done")
  /\ ret' = [ret EXCEPT ![p] = CurrentSelectionGet]
  /\ UNCHANGED <<documents, codes, coded_segments, nextId, isolation,
                 result, snap, pend>>
  /\ UNCHANGED appvars

\* What the user types into "Reload by filename": a stored name, one never
\* stored, and blanks.
OpenFilenames == { <<"a.txt">>, <<" ", "a.txt">>, <<"c.txt">>, <<" ">> }

\* The selection the browser sends: a range with its text.
Selections == { [start |-> 0, end |-> 2, text |-> <<"a", "b">>] }
ApplyCodeIds == {0, 3}

\* The files the session uploads: two names, and contents above the preview
\* threshold and above the size limit.
UploadFilenames == {"a.txt", "b.txt"}
UploadContents ==
  { <<"a", "b", "c">>, <<"b", "a", "c", "d">>, <<"b", "a", "c", "d", "e">> }

\* The callers that are browser sessions; the other caller only uploads,
\* calling upsert_document as another session's _on_upload does, with a
\* content at the preview threshold.
Sessions == {"p1"}
OtherContents == { <<"a", "b">> }

NextSession ==
  \/ \E p \in Procs \ Sessions, f \in ViewFilenames, c \in OtherContents :
       CallUpsertDocument(p, f, c)
  \/ \E p \in Sessions, f \in UploadFilenames, c \in UploadContents :
       CallOnUpload(p, f, c)
  \/ \E p \in Procs : UdInsert(p)
  \/ \E p \in Procs : UdSelect(p)
  \/ \E p \in Procs : UdCommit(p)
  \/ \E p \in Sessions : OuExcept(p)
  \/ \E p \in Sessions : OuSet(p)
  \/ \E p \in Sessions, f \in OpenFilenames : CallOpenExisting(p, f)
  \/ \E p \in Sessions : OeFindDocument(p)
  \/ \E p \in Sessions : GtdGetDocument(p)
  \/ \E p \in Sessions : GtdGetPreview(p)
  \/ \E p \in Sessions : OeDisplay(p)
  \/ \E p \in Sessions, sel \in Selections : SelInfo(p, sel)
  \/ \E p \in Sessions, c \in ApplyCodeIds : ApplyCode(p, c)
  \/ \E p \in Procs : Return(p)

InitSession == InitDB /\ NoHL /\ InitApp

\* Sessions opening documents and applying codes while documents are
\* uploaded.
SpecSession == InitSession /\ [][NextSession]_vars

----------------------------------------------------------------------------
(* Properties of the segment store (SpecSeg).                              *)

\* p has finished a call of fn and holds its outcome.
Finished(p, fn) == pc[p] = "done" /\ args[p].fn = fn

\* The call's offsets and text pass the validations of the specification:
\* 0 <= start < end, and a text with a character that is not whitespace.
WellFormed(a) ==
  /\ 0 <= a.start
  /\ a.start < a.end
  /\ \E i \in 1..Len(a.selected_text) : a.selected_text[i] \notin Whitespace

NotFoundMessages == {"Document not found", "Code not found"}

\* The stored segments with the call's (document_id, code_id, start, end).
Stored(a) == {r \in coded_segments : SameSegment(r, a)}

\* p and q have finished insert_segment calls with the same
\* (document_id, code_id, start, end), both well-formed, and each found its
\* document and its code.
SameInsertTwice(p, q) ==
  /\ p # q
  /\ Finished(p, "insert_segment")
  /\ Finished(q, "insert_segment")
  /\ WellFormed(args[p])
  /\ WellFormed(args[q])
  /\ args[p].document_id = args[q].document_id
  /\ args[p].code_id = args[q].code_id
  /\ args[p].start = args[q].start
  /\ args[p].end = args[q].end
  /\ ret[p].msg \notin NotFoundMessages
  /\ ret[q].msg \notin NotFoundMessages

\* Both calls returned the id of the one stored row of their tuple.
OneRowSameId(p, q) ==
  /\ ret[p].kind = "ok"
  /\ ret[q].kind = "ok"
  /\ ret[p].id = ret[q].id
  /\ \E r \in coded_segments : Stored(args[p]) = {r} /\ r.id = ret[p].id

\* C1: two insert_segment calls in sequence (neither ran while another call
\* was running) with the same well-formed (document_id, code_id, start, end)
\* against an existing document and code leave exactly one stored row of
\* that tuple, and both return that row's id.
C1_InsertTwiceInSequence ==
  \A p, q \in Procs :
    SameInsertTwice(p, q) /\ ~overlap[p] /\ ~overlap[q] => OneRowSameId(p, q)

\* Two calls in sequence: one inserted the row (lastrowid), the other hit
\* uniq_segment and resolved to the existing row.
C1_Witness ==
  \E p, q \in Procs :
    /\ SameInsertTwice(p, q) /\ ~overlap[p] /\ ~overlap[q]
    /\ result[p].lastrowid # 0
    /\ result[q].lastrowid = 0
    /\ ret[q] = Returned(result[p].lastrowid)

\* C5 (as claimed): two concurrent insert_segment calls with the identical
\* tuple leave exactly one stored row, both return its id, and neither
\* receives an error.
C5_ConcurrentInsertSameTuple ==
  \A p, q \in Procs :
    SameInsertTwice(p, q) /\ overlap[p] /\ overlap[q] => OneRowSameId(p, q)

\* C6: insert_segment with a document_id that matches no documents row, or a
\* code_id that matches no codes row, raises the not-found error that names
\* the missing reference, and no segment of the call is stored.
C6_MissingReferenceNotFound ==
  \A p \in Procs :
    Finished(p, "insert_segment") /\ WellFormed(args[p]) =>
      LET noDoc == \A r \in documents : r.id # args[p].document_id
          noCode == \A r \in codes : r.id # args[p].code_id
      IN /\ noDoc => ret[p] = Raised("ValueError", "Document not found")
         /\ noCode /\ ~noDoc =>
              /\ ret[p].kind = "ValueError"
              /\ ret[p].msg \in NotFoundMessages
         /\ ret[p].msg = "Code not found" => noCode
         /\ noDoc \/ noCode =>
              /\ Stored(args[p]) = {}
              /\ \A q \in Procs : \A r \in Own(q, "coded_segments") :
                   ~SameSegment(r, args[p])

\* One call failed on its document and another, whose document is stored, on
\* its code.
C6_Witness ==
  \E p, q \in Procs :
    /\ Finished(p, "insert_segment") /\ Finished(q, "insert_segment")
    /\ ret[p] = Raised("ValueError", "Document not found")
    /\ ret[q] = Raised("ValueError", "Code not found")
    /\ \E r \in documents : r.id = args[q].document_id

\* C7: a call with start < 0, or end <= start, or a text that is empty after
\* trimming is rejected with a validation error in the step that calls it:
\* no statement runs (the call never holds a read view or a write, and is
\* done at once) and documents, codes and coded_segments are unchanged.
C7_ValidationBeforeStore ==
  [][\A p \in Procs :
       (pc[p] = "idle" /\ args'[p].fn = "insert_segment" /\ ~WellFormed(args'[p]))
         => /\ pc'[p] = "done"
            /\ ret'[p].kind = "ValueError"
            /\ ret'[p].msg \in {"Invalid offset range", "Selected text cannot be empty"}
            /\ UNCHANGED <<documents, codes, coded_segments, nextId, snap, pend>>]_vars

\* Both validations have rejected a call while a document and a segment are
\* stored.
C7_Witness ==
  \E p, q \in Procs :
    /\ Finished(p, "insert_segment") /\ Finished(q, "insert_segment")
    /\ ret[p] = Raised("ValueError", "Invalid offset range")
    /\ ret[q] = Raised("ValueError", "Selected text cannot be empty")
    /\ args[q].selected_text # <<>>
    /\ documents # {}
    /\ coded_segments # {}

----------------------------------------------------------------------------
(* Properties of the stored segments (SpecRef, SpecNear, SpecFrame).       *)

\* C23: every stored segment references a stored document and a stored
\* code, whatever the interleaving of insert_segment calls with the removal
\* of documents and codes: a removal takes the segments of the removed row
\* with it, and a call whose existence checks passed commits no segment of a
\* row removed since.
C23_SegmentsReferenceStoredRows ==
  \A s \in coded_segments :
    /\ \E d \in documents : d.id = s.document_id
    /\ \E c \in codes : c.id = s.code_id

\* A segment had been stored; then a call passed both existence checks, the
\* document was removed, taking the stored segment with it, and the call's
\* INSERT failed on the foreign key.
C23_Witness ==
  \E p \in Procs :
    /\ Finished(p, "insert_segment")
    /\ ret[p] = Raised("IntegrityError", "foreign key")
    /\ nextId.coded_segments > 1
    /\ documents = {}
    /\ coded_segments = {}

\* The call a and the call b name the same (document_id, code_id, start, end).
SameTuple(a, b) ==
  /\ a.document_id = b.document_id
  /\ a.code_id = b.code_id
  /\ a.start = b.start
  /\ a.end = b.end

\* The row r has the (document_id, code_id, start, end) of the call a.
RowOf(r, a) ==
  /\ r.document_id = a.document_id
  /\ r.code_id = a.code_id
  /\ r.start_offset = a.start
  /\ r.end_offset = a.end

\* C25: a stored segment stays stored, equal in every column, through every
\* step of upsert_document, create_code, insert_segment and delete_segment,
\* except the commit of a delete_segment call for its own id, which removes
\* it.
C25_SegmentsNeverMutated ==
  [][\A r \in coded_segments :
       \/ r \in coded_segments'
       \/ /\ \A x \in coded_segments' : x.id # r.id
          /\ \E p \in Procs :
               /\ args[p].fn = "delete_segment"
               /\ args[p].segment_id = r.id
               /\ pc[p] = "ds_commit"
               /\ pc'[p] = "done"]_vars

\* A segment is stored with the text of its first insert after its document
\* was overwritten with another content and the same range was inserted
\* again with another text.
C25_Witness ==
  \E p \in Procs : \E r \in coded_segments : \E d \in documents :
    /\ Finished(p, "insert_segment")
    /\ ret[p] = Returned(r.id)
    /\ RowOf(r, args[p])
    /\ r.selected_text # args[p].selected_text
    /\ d.id = r.document_id
    /\ d.content = <<"x", "y">>

\* C27: every segment, stored or written and not yet committed, has
\* 0 <= start_offset < end_offset; two insert_segment calls that returned and
\* differ in document_id, code_id, start or end returned distinct ids, each
\* the id of a stored row of its own tuple; and an INSERT that finds no stored
\* row of exactly its tuple stores a new row under a new id, whatever other
\* rows are stored.
C27_ValidOffsetsNearDuplicatesKept ==
  /\ [](\A r \in coded_segments \cup UNION {Own(p, "coded_segments") : p \in Procs} :
          0 <= r.start_offset /\ r.start_offset < r.end_offset)
  /\ [](\A p, q \in Procs :
          /\ p # q
          /\ Finished(p, "insert_segment") /\ Finished(q, "insert_segment")
          /\ ret[p].kind = "ok" /\ ret[q].kind = "ok"
          /\ ~SameTuple(args[p], args[q])
          => /\ ret[p].id # ret[q].id
             /\ \E r \in coded_segments : r.id = ret[p].id /\ RowOf(r, args[p])
             /\ \E r \in coded_segments : r.id = ret[q].id /\ RowOf(r, args[q]))
  /\ [][\A p \in Procs :
          /\ pc[p] = "is_insert"
          /\ pc'[p] # pc[p]
          /\ \A r \in coded_segments : ~RowOf(r, args[p])
          => /\ pc'[p] = "is_commit"
             /\ result'[p].lastrowid = nextId.coded_segments
             /\ \A r \in coded_segments : r.id < nextId.coded_segments]_vars

\* Two calls with overlapping ranges of the same document and code have
\* returned: two rows with distinct ids are stored.
C27_Witness ==
  \E p, q \in Procs : \E r, t \in coded_segments :
    /\ Finished(p, "insert_segment") /\ Finished(q, "insert_segment")
    /\ args[p].document_id = args[q].document_id
    /\ args[p].code_id = args[q].code_id
    /\ args[p].start < args[q].start /\ args[q].start < args[p].end
    /\ ret[p] = Returned(r.id) /\ RowOf(r, args[p])
    /\ ret[q] = Returned(t.id) /\ RowOf(t, args[q])
    /\ r.id # t.id

----------------------------------------------------------------------------
(* Properties of the code registry (SpecCode).                             *)

\* C2: create_code called twice with the same name, in sequence or by two
\* concurrent callers, leaves exactly one codes row of that name, and both
\* calls return its id; no call raises.
C2_CreateCodeTwice ==
  /\ \A p \in Procs : Finished(p, "create_code") => ret[p].kind = "ok"
  /\ \A p, q \in Procs :
       /\ p # q
       /\ Finished(p, "create_code")
       /\ Finished(q, "create_code")
       /\ args[p].name = args[q].name
       => /\ ret[p].id = ret[q].id
          /\ \E r \in codes :
               /\ {x \in codes : x.name = args[p].name} = {r}
               /\ r.id = ret[p].id

\* Two concurrent callers raced to create a new name: one inserted the row,
\* the other's INSERT IGNORE was a no-op.
C2_Witness ==
  \E p, q \in Procs :
    /\ p # q
    /\ Finished(p, "create_code") /\ Finished(q, "create_code")
    /\ args[p].name = args[q].name
    /\ args[p].name \notin {r.name : r \in SeedCodes}
    /\ overlap[p] /\ overlap[q]
    /\ result[p].rowcount = 1
    /\ result[q].rowcount = 0
    /\ ret[p].kind = "ok" /\ ret[q] = ret[p]

\* The committed codes rows whose name equals name under the column's
\* collation.
CodesNamed(name) == {r \in codes : SameName(r.name, name)}

\* C18: a create_code call that finds a code of its name stored changes no
\* codes row and creates none, whatever description and color it was given,
\* and returns the id of the stored row.
C18_ExistingCodeUnchanged ==
  [][\A p \in Procs :
       /\ Running(p)
       /\ args[p].fn = "create_code"
       /\ pc'[p] # pc[p]
       /\ CodesNamed(args[p].name) # {}
       => /\ codes' = codes
          /\ nextId' = nextId
          /\ pend'[p] = {}
          /\ pc'[p] = "done" =>
                \E r \in codes : /\ CodesNamed(args[p].name) = {r}
                                 /\ ret'[p] = Returned(r.id)]_vars

\* create_code("Theme", "note") has returned the id of the seeded code, whose
\* description is still the seeded one.
C18_Witness ==
  \E p \in Procs :
    /\ Finished(p, "create_code")
    /\ args[p].name = "Theme"
    /\ args[p].description = "note"
    /\ result[p].rowcount = 0
    /\ ret[p] = Returned(3)
    /\ \E r \in SeedCodes : r.id = 3 /\ r.description # "note" /\ r \in codes
    /\ Cardinality(codes) = Cardinality(SeedCodes)

\* not name.strip(), or len(name) > 190: the names the handler _add_code
\* refuses before it calls create_code.
RefusedName(name) ==
  \/ name \in {"", " "}
  \/ NameLength(name) > MaxNameLength

\* C20: a create_code call with an empty, blank or over-long name changes no
\* codes row, creates none, and does not return an id.
C20_InvalidNameRejected ==
  [][\A p \in Procs :
       /\ Running(p)
       /\ args[p].fn = "create_code"
       /\ RefusedName(args[p].name)
       /\ pc'[p] # pc[p]
       => /\ codes' = codes
          /\ pc'[p] = "done" => ret'[p].kind # "ok"]_vars

----------------------------------------------------------------------------
(* Properties of the document store (SpecDoc).                             *)

\* The documents row that content gives under id and filename.
DerivedRow(id, filename, content) ==
  [id |-> id, filename |-> filename, content |-> content,
   content_hash |-> CalculateContentHash(content),
   file_size |-> Utf8Len(content), char_count |-> Len(content)]

\* C3: when upsert_document(filename, content2) completes for a filename that
\* was stored with another content, it returns the id the row had, exactly
\* one row of that filename is stored, and its content, content_hash,
\* file_size and char_count are those derived from content2.
C3_OverwriteKeepsId ==
  [][\A p \in Procs :
       (pc[p] = "ud_commit" /\ pc'[p] = "done") =>
         \A old \in documents :
           (old.filename = args[p].filename /\ old.content # args[p].content)
             => /\ ret'[p] = Returned(old.id)
                /\ {r \in documents' : r.filename = args[p].filename}
                     = {DerivedRow(old.id, args[p].filename, args[p].content)}]_vars

\* An upsert has overwritten a stored document of another content and
\* length.
C3_Witness ==
  \E p \in Procs : \E r \in documents :
    /\ Finished(p, "upsert_document")
    /\ result[p].rowcount = 2
    /\ r = DerivedRow(ret[p].id, args[p].filename, args[p].content)
    /\ r.file_size # r.char_count
    /\ Cardinality(documents) = 2

\* C4: two upsert_document calls with the same filename and different
\* contents, also when they run concurrently, leave exactly one row of that
\* filename, both return its id, and the row is, in all its fields, the row
\* of one of the two calls.
C4_ConcurrentUpsert ==
  \A p, q \in Procs :
    /\ p # q
    /\ Finished(p, "upsert_document")
    /\ Finished(q, "upsert_document")
    /\ args[p].filename = args[q].filename
    /\ args[p].content # args[q].content
    => /\ ret[p].kind = "ok"
       /\ ret[q] = ret[p]
       /\ \E r \in documents :
            /\ {x \in documents : x.filename = args[p].filename} = {r}
            /\ \/ r = DerivedRow(ret[p].id, args[p].filename, args[p].content)
               \/ r = DerivedRow(ret[p].id, args[q].filename, args[q].content)

\* Two callers uploaded a new filename concurrently with different contents:
\* one inserted the row, the other updated it.
C4_Witness ==
  \E p, q \in Procs :
    /\ p # q
    /\ Finished(p, "upsert_document") /\ Finished(q, "upsert_document")
    /\ args[p].filename = args[q].filename
    /\ args[p].content # args[q].content
    /\ overlap[p] /\ overlap[q]
    /\ result[p].rowcount = 1
    /\ result[q].rowcount = 2
    /\ ret[q] = ret[p]

\* C26: every upsert_document call of a filename that is stored returns the
\* id of the stored row, and every call returns the id of the row of its
\* filename; a call whose content is the stored content leaves the documents
\* table as it was; no row ever changes its id or filename, and a call adds a
\* row only when its filename was not stored.
C26_RepeatedUpsertSameId ==
  [][/\ \A r \in documents :
          \E q \in documents' : q.id = r.id /\ q.filename = r.filename
     /\ \A p \in Procs :
          (args[p].fn = "upsert_document" /\ Running(p) /\ pc'[p] = "done") =>
            /\ \E r \in documents' :
                 r.filename = args[p].filename /\ ret'[p] = Returned(r.id)
            /\ \A old \in documents :
                 old.filename = args[p].filename =>
                   /\ ret'[p] = Returned(old.id)
                   /\ Cardinality(documents') = Cardinality(documents)
                   /\ old.content = args[p].content => documents' = documents]_vars

\* A call has uploaded the stored content again: the statement changed
\* nothing (rowcount 0, lastrowid 0), the id came from the SELECT, and it is
\* the id of the one stored row.
C26_Witness ==
  \E p \in Procs : \E r \in documents :
    /\ Finished(p, "upsert_document")
    /\ result[p].rowcount = 0
    /\ result[p].lastrowid = 0
    /\ ret[p] = Returned(r.id)
    /\ r.filename = args[p].filename
    /\ r.content = args[p].content
    /\ documents = {r}

\* C22: every documents row has the content_hash, char_count and file_size
\* (UTF-8 bytes) that its content gives, and no two rows have the same
\* filename.
C22_DocumentsConsistent ==
  /\ \A r \in documents : r = DerivedRow(r.id, r.filename, r.content)
  /\ \A r, q \in documents : r.filename = q.filename => r = q

\* Two documents are stored; one was overwritten by a content of another
\* length whose UTF-8 size differs from its character count.
C22_Witness ==
  /\ Cardinality(documents) = 2
  /\ \E p \in Procs : \E r \in documents :
       /\ Finished(p, "upsert_document")
       /\ result[p].rowcount = 2
       /\ r.id = ret[p].id
       /\ r.content = args[p].content
       /\ r.file_size # r.char_count

----------------------------------------------------------------------------
(* Properties of the renderer (SpecHL).                                    *)

\* A piece of the markup is a tag when it is not an escaped character.
IsTag(piece) == piece \notin {EscapeChar(c) : c \in Alphabet}
IsOpenTag(piece) == IsTag(piece) /\ piece # MarkClose

\* The markup with its <mark ...> and </mark> tags removed.
WithoutTags(m) == SelectSeq(m, LAMBDA piece : ~IsTag(piece))

\* The number of text characters among the first n pieces of the markup.
CharsBefore(m, n) == Len(WithoutTags(SubSeq(m, 1, n)))

\* The positions of the opening tags of the markup, ascending.
RECURSIVE OpenTagsFrom(_, _)
OpenTagsFrom(m, i) ==
  IF i > Len(m) THEN <<>>
  ELSE (IF IsOpenTag(m[i]) THEN <<i>> ELSE <<>>) \o OpenTagsFrom(m, i + 1)

\* The tags are well nested: an opening tag is followed by text and then by
\* its closing tag, and no closing tag stands alone.
TagsPaired(m) ==
  /\ \A i \in 1..Len(m) : IsOpenTag(m[i]) =>
       \E j \in (i + 1)..Len(m) :
         /\ m[j] = MarkClose
         /\ \A k \in (i + 1)..(j - 1) : ~IsTag(m[k])
  /\ \A j \in 1..Len(m) : m[j] = MarkClose =>
       \E i \in 1..(j - 1) :
         /\ IsOpenTag(m[i])
         /\ \A k \in (i + 1)..(j - 1) : ~IsTag(m[k])

\* The highlighted ranges of the markup, as half-open ranges <<s, e>> of
\* text offsets, in the order of the output.
HighlightedRanges(m) ==
  LET opens == OpenTagsFrom(m, 1)
      close(i) == CHOOSE j \in (i + 1)..Len(m) :
                    m[j] = MarkClose /\ \A k \in (i + 1)..(j - 1) : m[k] # MarkClose
  IN [n \in 1..Len(opens) |->
        <<CharsBefore(m, opens[n]), CharsBefore(m, close(opens[n]))>>]

\* An offset clamped into [0, len].
Clamped(x, len) == IF x < 0 THEN 0 ELSE IF x > len THEN len ELSE x

\* The clamped range of a segment: its end is never before its start.
ClampedRange(seg, len) ==
  LET s == Clamped(seg.start_offset, len)
      e == Clamped(seg.end_offset, len)
  IN <<s, IF e < s THEN s ELSE e>>

RECURSIVE WalkRanges(_, _, _, _)
\* The ranges the walk of the claim highlights: of the segments whose indexes
\* are in todo, taken in ascending (start_offset, end_offset) order with the
\* cursor at last, a segment is highlighted iff its clamped start is >= last,
\* and then last becomes its clamped end.
WalkRanges(segs, todo, last, len) ==
  IF todo = {} THEN <<>>
  ELSE LET i == CHOOSE x \in todo : \A y \in todo :
                  \/ segs[x].start_offset < segs[y].start_offset
                  \/ /\ segs[x].start_offset = segs[y].start_offset
                     /\ segs[x].end_offset <= segs[y].end_offset
           r == ClampedRange(segs[i], len)
       IN IF r[1] >= last
          THEN <<r>> \o WalkRanges(segs, todo \ {i}, r[2], len)
          ELSE WalkRanges(segs, todo \ {i}, last, len)

\* C8: highlight_text highlights exactly the segments the first-sorted-wins
\* walk selects (clamped start >= last, then last = clamped end; the others
\* skipped), so the highlighted ranges are pairwise disjoint and ascending.
C8_FirstSortedWins ==
  hlpc = "done" =>
    LET got == HighlightedRanges(markup)
    IN /\ got = WalkRanges(segments, DOMAIN segments, 0, Len(text))
       /\ \A n \in 1..Len(got) : got[n][1] <= got[n][2]
       /\ \A n \in 1..(Len(got) - 1) : got[n][2] <= got[n + 1][1]

\* Two overlapping segments were rendered: the one sorted first (given
\* second) is highlighted with its text, the other is dropped.
C8_Witness ==
  /\ hlpc = "done"
  /\ Len(text) = 2
  /\ Len(segments) = 2
  /\ segments[1].start_offset = 1 /\ segments[1].end_offset = 2
  /\ segments[2].start_offset = 0 /\ segments[2].end_offset = 2
  /\ HighlightedRanges(markup) = << <<0, 2>> >>

\* C9: highlight_text(text, []) is the escaped text and holds no tag.
C9_NoSegmentsEscapedText ==
  (hlpc = "done" /\ segments = <<>>) =>
    /\ markup = HtmlEscape(text)
    /\ \A i \in 1..Len(markup) : ~IsTag(markup[i])

\* A text with a character html.escape rewrites was rendered with no
\* segments.
C9_Witness ==
  /\ hlpc = "done"
  /\ segments = <<>>
  /\ \E i \in 1..Len(text) : text[i] = "<"
  /\ markup # text

\* C10: for every text and segment list, the markup with its tags removed is
\* exactly the escaped text (every character once, in order), and the tags
\* are intact: each piece is an escaped character of the text or a whole
\* tag, opening and closing tags paired.
C10_TextPreserved ==
  hlpc = "done" =>
    /\ WithoutTags(markup) = HtmlEscape(text)
    /\ TagsPaired(markup)

\* A segment running past the end of an escaped text was rendered after a
\* zero-width one: the text is there once around the tags.
C10_Witness ==
  /\ hlpc = "done"
  /\ text = <<"<", "a">>
  /\ Len(segments) = 2
  /\ segments[1].start_offset = 1 /\ segments[1].end_offset = 3
  /\ segments[2].start_offset = 0 /\ segments[2].end_offset = 0 - 1
  /\ Len(OpenTagsFrom(markup, 1)) = 2
  /\ WithoutTags(markup) = <<"&lt;", "a">>

\* A segment that lies wholly at or past the end of a text of length len.
OutOfRange(seg, len) == seg.start_offset >= len /\ seg.end_offset >= len

\* The highlighted ranges of the markup that hold at least one character.
VisibleRanges(m) == SelectSeq(HighlightedRanges(m), LAMBDA r : r[1] < r[2])

\* The list segs without its i-th element.
WithoutSegment(segs, i) ==
  SubSeq(segs, 1, i - 1) \o SubSeq(segs, i + 1, Len(segs))

\* C11: a segment whose start_offset and end_offset are both >= len(text)
\* is clamped to start = end = len(text) and the call returns: a list of such
\* segments renders as the whole escaped text with only zero-width markers at
\* len(text), and in any list such a segment puts no character of the text
\* inside a marker (the visible highlights are those of the list without
\* it).
C11_OutOfRangeCollapses ==
  hlpc = "done" =>
    /\ ( /\ segments # <<>>
         /\ \A i \in DOMAIN segments : OutOfRange(segments[i], Len(text)) ) =>
         /\ WithoutTags(markup) = HtmlEscape(text)
         /\ TagsPaired(markup)
         /\ HighlightedRanges(markup) # <<>>
         /\ \A n \in DOMAIN HighlightedRanges(markup) :
              HighlightedRanges(markup)[n] = <<Len(text), Len(text)>>
         /\ SubSeq(markup, 1, Len(text)) = HtmlEscape(text)
    /\ \A i \in DOMAIN segments : OutOfRange(segments[i], Len(text)) =>
         VisibleRanges(markup) =
           VisibleRanges(HighlightText(text, WithoutSegment(segments, i)))

\* A two-character text was rendered with one segment lying past its end:
\* the escaped text is followed by an empty marker.
C11_Witness ==
  /\ hlpc = "done"
  /\ text = <<"a", "<">>
  /\ Len(segments) = 1
  /\ segments[1].start_offset = 3 /\ segments[1].end_offset = 3
  /\ markup = <<"a", "&lt;", MarkOpen(3), MarkClose>>

\* The lists that hold the segments of segs in some order.
Reorderings(segs) ==
  {[i \in 1..Len(segs) |-> segs[f[i]]] : f \in Orderings(1..Len(segs))}

\* No two segments of the list have the same (start_offset, end_offset).
DistinctRanges(segs) ==
  \A i, j \in 1..Len(segs) :
    i # j => \/ segs[i].start_offset # segs[j].start_offset
             \/ segs[i].end_offset # segs[j].end_offset

\* C32: for a list in which no two segments have the same (start_offset,
\* end_offset), highlight_text returns the same markup for every
\* permutation of the list.
C32_OrderOfListIrrelevant ==
  (hlpc = "done" /\ DistinctRanges(segments)) =>
    \A perm \in Reorderings(segments) : HighlightText(text, perm) = markup

\* Two segments that start together and end apart, the longer given first,
\* were rendered: the shorter is the one highlighted, as it is when the
\* list is given the other way round.
C32_Witness ==
  /\ hlpc = "done"
  /\ Len(text) = 2
  /\ Len(segments) = 2
  /\ segments[1].start_offset = 0 /\ segments[1].end_offset = 2
  /\ segments[2].start_offset = 0 /\ segments[2].end_offset = 1
  /\ HighlightedRanges(markup) = << <<0, 1>> >>

\* C33: after any upsert_document and insert_segment calls, also when the
\* document was overwritten with a content shorter than the offsets of its
\* segments, highlight_text(current content, list_segments(document))
\* raises no error, every range it wraps in <mark> lies within
\* [0, len(content)], and the marks of the markup are those ranges around
\* the whole escaped content.
C33_ShrunkDocumentRenders ==
  /\ hlpc # "raised"
  /\ hlpc = "done" =>
       LET ranges == MarkedRanges(text, SortedSegments(segments), 1, 0)
       IN /\ \A n \in 1..Len(ranges) :
               0 <= ranges[n][1] /\ ranges[n][1] <= ranges[n][2]
                 /\ ranges[n][2] <= Len(text)
          /\ HighlightedRanges(markup) = ranges
          /\ TagsPaired(markup)
          /\ WithoutTags(markup) = HtmlEscape(text)

\* The document was overwritten with "a" after the segments [0, 2) and
\* [2, 3) were stored, and rendered: "a" is marked, and the segment past
\* the end is an empty mark at the end.
C33_Witness ==
  /\ hlpc = "done"
  /\ text = <<"a">>
  /\ \E d \in documents : d.id = 1 /\ d.content = <<"a">>
  /\ Len(segments) = 2
  /\ segments[1].end_offset = 2
  /\ segments[2].start_offset = 2
  /\ HighlightedRanges(markup) = << <<0, 1>>, <<1, 1>> >>

----------------------------------------------------------------------------
(* Properties of the display of documents (SpecView).                      *)

\* Caller p's call of fn returns in this step.
Returns(p, fn) == args[p].fn = fn /\ pc[p] # "done" /\ pc'[p] = "done"

\* The content of the stored document doc_id.
StoredContent(doc_id) == (CHOOSE r \in GetDocument(doc_id) : TRUE).content

\* The sequence a is a prefix of the sequence b.
IsPrefix(a, b) == Len(a) <= Len(b) /\ a = SubSeq(b, 1, Len(a))

\* C13: for a stored document, get_text_for_display reads the document's
\* content and flags its result as preview exactly when that content is
\* longer than MAX_PREVIEW_SIZE; when it is not longer the result is the
\* content unchanged with is_preview = false.
C13_PreviewExactlyAboveThreshold ==
  [][ \A p \in Procs :
        /\ ( /\ pc[p] = "gtd_get_document" /\ pc'[p] # "gtd_get_document"
             /\ GetDocument(args[p].doc_id) # {} ) =>
             out'[p].read = StoredContent(args[p].doc_id)
        /\ (Returns(p, "get_text_for_display") /\ out'[p].found) =>
             /\ out'[p].is_preview = (Len(out'[p].read) > MAX_PREVIEW_SIZE)
             /\ Len(out'[p].read) <= MAX_PREVIEW_SIZE =>
                  /\ out'[p].text = out'[p].read
                  /\ out'[p].is_preview = FALSE ]_vars

\* A document whose length is exactly the threshold was displayed in full,
\* and one a character longer as a preview.
C13_Witness ==
  /\ pc["p1"] = "done" /\ args["p1"].fn = "get_text_for_display"
  /\ pc["p2"] = "done" /\ args["p2"].fn = "get_text_for_display"
  /\ out["p1"].read = <<"a", "b">>
  /\ out["p1"].text = <<"a", "b">> /\ out["p1"].is_preview = FALSE
  /\ out["p2"].read = <<"a", "b", "c">>
  /\ out["p2"].is_preview = TRUE

BeforeNotice(txt) ==
  IF Len(txt) >= Len(TruncationNotice)
       /\ SubSeq(txt, Len(txt) - Len(TruncationNotice) + 1, Len(txt))
            = TruncationNotice
  THEN SubSeq(txt, 1, Len(txt) - Len(TruncationNotice))
  ELSE txt

\* C31 as stated: the result of get_text_for_display for a stored document
\* is consistent although another caller overwrites the document between
\* get_document and get_document_preview: with is_preview = true the text
\* (taken without the notice) is a prefix of a stored version longer than
\* MAX_PREVIEW_SIZE, and with is_preview = false it is a complete stored
\* version.  The versions are the one get_document returned to the call and
\* the one stored when the call returns; the uploads of SpecOverwrite store
\* two contents, so a version stored in between is one of these two.
C31_DisplayConsistentUnderOverwrite ==
  [][ \A p \in Procs :
        (Returns(p, "get_text_for_display") /\ out'[p].found) =>
          IF out'[p].is_preview
          THEN \E v \in {out'[p].read, StoredContent(args[p].doc_id)} :
                 /\ Len(v) > MAX_PREVIEW_SIZE
                 /\ IsPrefix(BeforeNotice(out'[p].text), v)
          ELSE out'[p].text = StoredContent(args[p].doc_id) ]_vars

----------------------------------------------------------------------------
(* Properties of the session handlers (SpecSession).                       *)

\* A handler that ended by showing message as an error status.
ErrorStatus(message) == [kind |-> "status", id |-> 0, msg |-> message]

\* C21: an upload of a file of more than MAX_FILE_SIZE bytes is refused by
\* sniff_text with the ValueError "File too large" before anything is
\* written: through every step of the handler upsert_document is not called,
\* no transaction writes, and the documents table and the session's current
\* document, text and metadata stay as they were.
C21_OversizedUploadRejected ==
  [][\A p \in Sessions :
       /\ pc'[p] # pc[p]
       /\ args'[p].fn = "_on_upload"
       /\ args'[p].size_bytes > MAX_FILE_SIZE
       => /\ pc[p] = "idle" => ret'[p] = Raised("ValueError", "File too large")
          /\ pc'[p] \notin {"ud_insert", "ud_select", "ud_commit", "ou_set"}
          /\ pend'[p] = {}
          /\ documents' = documents
          /\ nextId' = nextId
          /\ session'[p] = session[p]]_vars

\* The handler has finished for a file above the limit while the session
\* had a current document, and the file's name is not stored.
C21_Witness ==
  \E p \in Sessions :
    /\ Finished(p, "_on_upload")
    /\ args[p].size_bytes > MAX_FILE_SIZE
    /\ session[p].current_doc_id # 0
    /\ \A d \in documents : d.filename # args[p].filename
    /\ documents # {}

\* The session of p shows content in full and is not flagged preview when
\* content is at most MAX_PREVIEW_SIZE characters long; it holds another,
\* shorter-bodied text and is flagged preview when content is longer.
ShowsByThreshold(s, content) ==
  IF Len(content) <= MAX_PREVIEW_SIZE
  THEN s.current_text = content /\ ~IsPreview(s.current_metadata)
  ELSE s.current_text # content /\ IsPreview(s.current_metadata)

\* C29 as stated: when a document becomes current, through upload or through
\* open, the session shows its body in full and unflagged if the content is
\* at most MAX_PREVIEW_SIZE characters long, and holds a preview flagged as
\* such if it is longer; and an Apply event in a session flagged preview
\* writes nothing.
C29_PreviewWheneverAboveThreshold ==
  [][\A p \in Sessions :
       /\ (pc[p] = "ou_set" /\ pc'[p] = "done")
            => ShowsByThreshold(session'[p], args[p].content)
       /\ (pc[p] = "oe_display" /\ pc'[p] = "done")
            => ShowsByThreshold(session'[p], out[p].read)
       /\ ( /\ pc[p] = "idle"
            /\ args'[p].fn = "_apply_code"
            /\ IsPreview(session[p].current_metadata) )
            => coded_segments' = coded_segments /\ pend' = pend]_vars

C15_ApplyInPreviewRefused ==
  [][ \A p \in Sessions :
        ( /\ pc[p] = "idle"
          /\ args'[p].fn = "_apply_code"
          /\ IsPreview(session[p].current_metadata) ) =>
          /\ ret'[p] = ErrorStatus("Cannot code segments in preview mode. Please use smaller documents.")
          /\ coded_segments' = coded_segments
          /\ pend' = pend ]_vars

----------------------------------------------------------------------------
(* Properties of the listings and of delete_segment (SpecList).            *)

\* Caller p calls fn in this step; list_segments and list_codes also return
\* in it.
Calls(p, fn) == pc[p] = "idle" /\ args'[p].fn = fn

\* The elements of a sequence.
Range(f) == {f[i] : i \in DOMAIN f}

\* C16 as stated: list_segments(document_id) returns exactly the stored
\* segments of the document, each once and with its code's name, ascending
\* in start_offset, and segments with equal start_offset in the order in
\* which they were inserted (ascending id: one caller inserts them, one
\* after the other).
C16_ListedInInsertionOrder ==
  [][ \A p \in Procs : Calls(p, "list_segments") =>
        LET rows == out'[p].value
            doc == args'[p].document_id
        IN /\ Len(rows) = Cardinality({cs \in coded_segments : cs.document_id = doc})
           /\ {r.id : r \in Range(rows)} =
                {cs.id : cs \in {x \in coded_segments : x.document_id = doc}}
           /\ \A r \in Range(rows) : \E c \in codes :
                c.id = r.code_id /\ c.name = r.code_name
           /\ \A i, j \in DOMAIN rows : i < j =>
                \/ rows[i].start_offset < rows[j].start_offset
                \/ /\ rows[i].start_offset = rows[j].start_offset
                   /\ rows[i].id < rows[j].id ]_vars

\* C17: list_codes returns every stored code exactly once, ascending in
\* name, each with usage_count equal to the number of stored segments that
\* reference it.
C17_CodesWithUsage ==
  [][ \A p \in Procs : Calls(p, "list_codes") =>
        LET rows == out'[p].value
        IN /\ Len(rows) = Cardinality(codes)
           /\ {[id |-> r.id, name |-> r.name, description |-> r.description,
                 color |-> r.color] : r \in Range(rows)} = codes
           /\ \A i, j \in DOMAIN rows : i < j =>
                NameRank(rows[i].name) < NameRank(rows[j].name)
           /\ \A r \in Range(rows) :
                r.usage_count =
                  Cardinality({cs \in coded_segments : cs.code_id = r.id}) ]_vars

\* The codes were listed after a code was created and two segments were
\* stored under one code: four codes, one used twice, the others unused.
C17_Witness ==
  \E p \in Procs :
    /\ Finished(p, "list_codes")
    /\ Len(out[p].value) = 4
    /\ out[p].value[2].name = "Memo" /\ out[p].value[2].usage_count = 0
    /\ out[p].value[4].name = "Theme" /\ out[p].value[4].usage_count = 2
    /\ nextId.coded_segments > 2

\* C19: delete_segment(segment_id) finds a row exactly when a segment with
\* that id is stored, returns true exactly when it found one, and its commit
\* removes that row and nothing else; when it found none the store is left
\* as it was.  Of two calls in sequence for the same id, the second returns
\* false once the first has returned true.
C19_DeleteExactlyThatRow ==
  [][ \A p \in Procs :
        LET id == args[p].segment_id
            marked == Own(p, "deleted_segments")
        IN /\ (pc[p] = "ds_delete" /\ pc'[p] = "ds_commit") =>
                /\ result'[p].rowcount =
                     Cardinality({r \in coded_segments : r.id = id})
                /\ Own(p, "deleted_segments")' =
                     {r \in coded_segments : r.id = id}
                /\ coded_segments' = coded_segments
           /\ (pc[p] = "ds_commit" /\ pc'[p] = "done") =>
                /\ out'[p] = Value("bool", marked # {})
                /\ marked \subseteq coded_segments
                /\ Cardinality(marked) <= 1
                /\ \A r \in marked : r.id = id
                /\ coded_segments' = coded_segments \ marked
                /\ documents' = documents /\ codes' = codes
                /\ \A q \in Procs \ {p} :
                     ( /\ Finished(q, "delete_segment")
                       /\ args[q].segment_id = id
                       /\ out[q] = Value("bool", TRUE)
                       /\ ~overlap[p] /\ ~overlap[q] ) =>
                       out'[p] = Value("bool", FALSE) ]_vars

\* The same id was deleted twice in sequence while another segment was
\* stored: the first call returned true, the second false, and the other
\* segment is still there.
C19_Witness ==
  \E p, q \in Procs :
    /\ p # q
    /\ Finished(p, "delete_segment") /\ Finished(q, "delete_segment")
    /\ args[p].segment_id = 1 /\ args[q].segment_id = 1
    /\ ~overlap[p] /\ ~overlap[q]
    /\ out[p] = Value("bool", TRUE)
    /\ out[q] = Value("bool", FALSE)
    /\ \E r \in coded_segments : r.id = 2
    /\ ~(\E r \in coded_segments : r.id = 1)

====
